---- MODULE Spec2Model ----
(***************************************************************************)
(* Model of the SageMaker-debugger notebook cnn_class_activation_maps:     *)
(*   - the wait-for-first-step loop and the rendering (polling) loop,      *)
(*   - the try block that renders one step (tensor fetches and plots),     *)
(*   - normalize on tensors of IEEE-like values (finite, +-inf, NaN).      *)
(* The smdebug trial is the environment: its step list, its tensors and    *)
(* its loaded_all_steps flag change between the loop's reads.              *)
(* Further parts, each with a specification of its own: the saliency       *)
(* accumulation and its name lists, plot, relu_inplace, upload_to_s3 and   *)
(* the job-status wait cell of the same notebook; visualize_detection of   *)
(* the SSD notebook; the training and endpoint cells of the R notebook.    *)
(***************************************************************************)
EXTENDS Integers, Sequences, FiniteSets, TLC

\* ------------------------------------------------------------------ bounds
\* EVAL steps the trial can report are 1..MaxStep.
MaxStep == 2
\* Training-mode steps the trial can report (seen only by trial.steps()).
MaxTrain == 1
\* How many times the trial may withdraw a step it had reported.
MaxDrops == 1
\* Items in image_batch (image_batch.shape[0]).
BatchSize == 2
\* Entries of the name lists gradients, biases, bn_weights, ...
NLayers == 1
\* Elements of a tensor handed to normalize, and the range of their values.
TLen == 3
MaxVal == 2
\* Shapes of the saliency computation: image channels, image width, and the
\* channels and width of a layer's gradient (one spatial dimension).
NChan == 2
ImageSize == 3
LayerChan == 1
LayerSize == 2

EvalSteps == 1..MaxStep

\* ------------------------------------------------------ sequences and sets
RECURSIVE SortedSeq(_)
\* sorted(S) for a finite set of integers
SortedSeq(S) ==
    IF S = {} THEN <<>>
    ELSE LET m == CHOOSE x \in S : \A y \in S : x <= y
         IN  <<m>> \o SortedSeq(S \ {m})

Range(q) == {q[i] : i \in 1..Len(q)}

\* ------------------------------------------------- float values (numpy)
\* A float is <<n, d>>: the rational n/d in lowest terms when d > 0,
\* +inf = <<1,0>>, -inf = <<-1,0>>, NaN = <<0,0>>.  Signed zeros and rounding
\* are not modelled; the values used are small exact rationals.
NaN == <<0, 0>>
PosInf == <<1, 0>>
NegInf == <<-1, 0>>
IsNaN(a) == a = NaN
IsFinite(a) == a[2] > 0

AbsInt(n) == IF n < 0 THEN -n ELSE n
Sign(n) == IF n < 0 THEN -1 ELSE IF n > 0 THEN 1 ELSE 0

RECURSIVE Gcd(_, _)
Gcd(a, b) == IF b = 0 THEN a ELSE Gcd(b, a % b)

\* the float n/d; d = 0 gives the IEEE special with the sign of n
Val(n, d) ==
    IF d = 0 THEN <<Sign(n), 0>>
    ELSE LET nn == n * Sign(d)
             dd == AbsInt(d)
             g  == Gcd(AbsInt(nn), dd)
         IN  <<nn \div g, dd \div g>>

F(n) == <<n, 1>>

FNeg(a) == <<-a[1], a[2]>>
FAbs(a) == <<AbsInt(a[1]), a[2]>>

FAdd(a, b) ==
    IF IsNaN(a) \/ IsNaN(b) THEN NaN
    ELSE IF a[2] = 0 /\ b[2] = 0 THEN (IF a = b THEN a ELSE NaN)
    ELSE IF a[2] = 0 THEN a
    ELSE IF b[2] = 0 THEN b
    ELSE Val(a[1] * b[2] + b[1] * a[2], a[2] * b[2])

FSub(a, b) == FAdd(a, FNeg(b))

FMul(a, b) ==
    IF IsNaN(a) \/ IsNaN(b) THEN NaN
    ELSE IF a[2] = 0 \/ b[2] = 0 THEN <<Sign(a[1] * b[1]), 0>>
    ELSE Val(a[1] * b[1], a[2] * b[2])

\* 1/a: 1/0 = +inf, 1/inf = 0
FRecip(a) ==
    IF IsNaN(a) THEN NaN
    ELSE IF a[1] = 0 THEN PosInf
    ELSE Val(a[2] * Sign(a[1]), AbsInt(a[1]))

\* numpy true_divide: x/0 is +-inf, 0/0 and inf/inf are NaN; a RuntimeWarning
\* is issued, no exception is raised
FDiv(a, b) == FMul(a, FRecip(b))

FLess(a, b) ==
    IF IsNaN(a) \/ IsNaN(b) \/ a = b THEN FALSE
    ELSE IF a = NegInf \/ b = PosInf THEN TRUE
    ELSE IF a = PosInf \/ b = NegInf THEN FALSE
    ELSE a[1] * b[2] < b[1] * a[2]

FLeq(a, b) == ~IsNaN(a) /\ ~IsNaN(b) /\ (a = b \/ FLess(a, b))

\* np.sqrt on the perfect squares the model uses; negative gives NaN
ISqrt(n) == CHOOSE r \in 0..n : r * r = n
FSqrt(a) ==
    IF IsNaN(a) \/ a[1] < 0 THEN NaN
    ELSE IF a[2] = 0 THEN PosInf
    ELSE <<ISqrt(a[1]), ISqrt(a[2])>>

\* np.min / np.max of a tensor (a function from indices to floats): NaN
\* propagates
Elems(T) == {T[i] : i \in DOMAIN T}
NpMin(T) ==
    IF NaN \in Elems(T) THEN NaN
    ELSE CHOOSE m \in Elems(T) : \A y \in Elems(T) : FLeq(m, y)
NpMax(T) ==
    IF NaN \in Elems(T) THEN NaN
    ELSE CHOOSE m \in Elems(T) : \A y \in Elems(T) : FLeq(y, m)

\* an array as a computed value: the same function, with its elements
\* computed once instead of at every use
Evaluated(f) == IF f = <<>> THEN f ELSE f

\* a normalize that divides by the maximum of the unshifted tensor
normalize_unshifted_max(T) ==
    LET mn == NpMin(T)
        mx == NpMax(T)
    IN  [i \in DOMAIN T |-> FDiv(FSub(T[i], mn), mx)]

\* def normalize(tensor):
\*     tensor = tensor - np.min(tensor)
\*     tensor = tensor / np.max(tensor)
normalize(tensor_arg) ==
    LET T == Evaluated(tensor_arg)
        mn == NpMin(T)
        shifted == Evaluated([i \in DOMAIN T |-> FSub(T[i], mn)])
        mx == NpMax(shifted)
    IN  Evaluated([i \in DOMAIN T |-> FDiv(shifted[i], mx)])

IsConstant(T) == \A i, j \in DOMAIN T : T[i] = T[j]
InUnit(a) == FLeq(F(0), a) /\ FLeq(a, F(1))

\* ---------------------------------------------------------------- variables
VARIABLES
    \* the notebook's names
    pc,                 \* position of the notebook in the two loops
    steps,              \* the Python value bound to `steps`
    rendered_steps,     \* the list rendered_steps
    loaded_all_steps,   \* the local flag of the rendering loop
    steps_to_render,    \* set(steps) ^ set(rendered_steps) of this pass
    todo,               \* what is left of sorted(steps_to_render)
    plots,              \* per step: how many times its batch was plotted
    unavailable_log,    \* steps printed as "Tensor unavailable for step"
    exc,                \* how the last try block ended
    \* the trial (environment)
    trial_steps,        \* EVAL steps the trial reports now
    trial_train,        \* number of TRAIN steps the trial reports now
    trial_loaded,       \* trial.loaded_all_steps
    trial_ready,        \* steps all of whose tensors have a value
    trial_var,          \* value of a running_var tensor (0 or 1)
    shapes_match,       \* do the paired name lists hold same-shaped layers
    drops,              \* steps withdrawn so far
    late_step,          \* a step was first reported after the flag was set
    \* one step's try block (SpecStep)
    step_pc, step_avail, item, plotted,
    \* normalize (SpecNorm)
    norm_pc, tensor, normalized,
    \* the saliency map of one batch item (SpecSal)
    sal_pc,             \* position in the item body
    image,              \* image_batch[item]
    image_gradient,     \* the "gradient/image" tensor of the item
    implicit_biases,    \* result of compute_implicit_biases
    saliency_map,       \* the map being accumulated
    layer,              \* next index of zip(gradients, biases, implicit_biases)
    \* one call of compute_implicit_biases and a second one on negated
    \* running means (SpecBias)
    bias_pc,            \* position: before / after each call
    bn_weights,         \* the name lists handed to the function
    running_vars,
    running_means,
    step,               \* the step handed to the function
    trial_seed,         \* which values the trial's batch-norm tensors hold
    mean_sign,          \* -1 once the running means were negated
    first_biases,       \* what the first call returned
    \* the accumulation over the paired name lists (SpecAcc)
    gradients,          \* the name list gradients
    biases,             \* the name list biases
    bn_names,           \* the layers implicit_biases was computed from
    layer_chan,         \* per layer: its number of channels
    acc_seed,           \* which values the trial's tensors hold
    added,              \* every array added into saliency_map so far
    \* the items of the steps, with arrays as objects (SpecItems)
    heap,               \* the arrays that exist: reference -> content
    rendered_maps,      \* the maps handed to plot, with step, item, object
    \* plot's heat map (SpecPlot)
    plot_pc,            \* position in plot
    uint8_cast,         \* what the build's float -> uint8 conversion does
    saliency_u8,        \* saliency_map after astype(np.uint8)
    \* the job-status wait cell and create_trial (SpecJob)
    job_pc,             \* position in the cells
    description,        \* the last describe_training_job response
    job_status,         \* the job's status on the platform
    job_waited,         \* the body of the while loop ran
    \* the R notebook's endpoint cells (SpecEndpoint)
    r_pc,               \* position in the cells
    endpoint_status,    \* the endpoint's status on the platform
    status,             \* the R variable status
    waiter_threw,       \* the endpoint_in_service waiter ended with an error
    attempts,           \* polls the waiter has made
    \* visualize_detection of the SSD notebook (SpecDet)
    det_pc,             \* position in visualize_detection
    dets,               \* the detections: one <<class id, score>> per object
    classes,            \* the list of class names
    thresh,             \* the score threshold, in tenths
    det_i,              \* the loop variable i
    patches,            \* the detections a Rectangle was added for
    \* relu_inplace (SpecRelu)
    relu_pc,            \* position in the call relu_inplace(model)
    modules,            \* the module objects: class, inplace and _modules
    call_stack,         \* the active calls of relu_inplace and their loops
    modules_before,     \* the module objects when relu_inplace was called
    \* upload_to_s3 (SpecUpload)
    upload_pc,          \* position in upload_to_s3
    walk,               \* what os.walk(path) yields: the files of each directory
    counter,            \* the argument counter
    walk_i,             \* directories the outer loop has been through
    uploaded,           \* the <<directory, file>> pairs handed to upload_file
    \* the R notebook's training wait cell (SpecTrain)
    training_job_status \* the training job's status on the platform

loopVars == <<pc, steps, rendered_steps, loaded_all_steps, steps_to_render,
              todo, plots, unavailable_log, exc>>
trialVars == <<trial_steps, trial_train, trial_loaded, trial_ready, trial_var,
               shapes_match, drops, late_step>>
stepVars == <<step_pc, step_avail, item, plotted>>
normVars == <<norm_pc, tensor, normalized>>
salVars == <<sal_pc, image, image_gradient, implicit_biases, saliency_map,
             layer>>
biasVars == <<bias_pc, bn_weights, running_vars, running_means, step,
              trial_seed, mean_sign, first_biases>>
accVars == <<gradients, biases, bn_names, layer_chan, acc_seed, added>>
itemVars == <<heap, rendered_maps>>
plotVars == <<plot_pc, uint8_cast, saliency_u8>>
jobVars == <<job_pc, description, job_status, job_waited>>
endpointVars == <<r_pc, endpoint_status, status, waiter_threw, attempts>>
detVars == <<det_pc, dets, classes, thresh, det_i, patches>>
reluVars == <<relu_pc, modules, call_stack, modules_before>>
uploadVars == <<upload_pc, walk, counter, walk_i, uploaded>>
trainVars == <<training_job_status>>
utilVars == <<detVars, reluVars, uploadVars, trainVars>>
auxVars == <<biasVars, accVars, itemVars, plotVars, jobVars, endpointVars,
             utilVars>>
vars == <<loopVars, trialVars, stepVars, normVars, salVars, auxVars>>

\* ------------------------------------------------------------ idle parts
\* Each specification runs one part of the notebook; the variables of the
\* other parts keep these values.
LoopIdle ==
    /\ pc = "idle" /\ steps = [type |-> "int", val |-> 0]
    /\ rendered_steps = <<>> /\ loaded_all_steps = FALSE
    /\ steps_to_render = {} /\ todo = <<>>
    /\ plots = [s \in EvalSteps |-> 0] /\ unavailable_log = <<>>
    /\ exc = "none"
    /\ trial_steps = {} /\ trial_train = 0 /\ trial_loaded = FALSE
    /\ trial_ready = {} /\ trial_var = 1 /\ shapes_match = TRUE
    /\ drops = 0 /\ late_step = FALSE
StepIdle == step_pc = "idle" /\ step_avail = {} /\ item = 0 /\ plotted = 0
NormIdle == norm_pc = "idle" /\ tensor = <<>> /\ normalized = <<>>
SalIdle ==
    /\ sal_pc = "idle" /\ image = <<>> /\ image_gradient = <<>>
    /\ implicit_biases = <<>> /\ saliency_map = <<>> /\ layer = 0

BiasIdle ==
    /\ bias_pc = "idle" /\ bn_weights = <<>> /\ running_vars = <<>>
    /\ running_means = <<>> /\ step = 0 /\ trial_seed = <<0, 0, 0>>
    /\ mean_sign = 1 /\ first_biases = <<>>
AccIdle ==
    /\ gradients = <<>> /\ biases = <<>> /\ bn_names = <<>>
    /\ layer_chan = <<>> /\ acc_seed = <<0, 0, 0>> /\ added = <<>>
ItemsIdle == heap = <<>> /\ rendered_maps = <<>>
PlotIdle == plot_pc = "idle" /\ uint8_cast = "wrap" /\ saliency_u8 = <<>>
NoStatus == [TrainingJobStatus |-> "none", SecondaryStatus |-> "none"]
JobIdle ==
    /\ job_pc = "idle" /\ description = NoStatus /\ job_status = NoStatus
    /\ job_waited = FALSE
EndpointIdle ==
    /\ r_pc = "idle" /\ endpoint_status = "none" /\ status = "none"
    /\ waiter_threw = FALSE /\ attempts = 0
DetIdle ==
    /\ det_pc = "idle" /\ dets = <<>> /\ classes = <<>> /\ thresh = 0
    /\ det_i = 0 /\ patches = <<>>
ReluIdle ==
    /\ relu_pc = "idle" /\ modules = <<>> /\ call_stack = <<>>
    /\ modules_before = <<>>
UploadIdle ==
    /\ upload_pc = "idle" /\ walk = <<>> /\ counter = 0 /\ walk_i = 0
    /\ uploaded = {}
TrainIdle == training_job_status = "none"
UtilIdle == DetIdle /\ ReluIdle /\ UploadIdle /\ TrainIdle
AuxIdle ==
    /\ BiasIdle /\ AccIdle /\ ItemsIdle /\ PlotIdle /\ JobIdle
    /\ EndpointIdle
    /\ UtilIdle

\* ------------------------------------------------------------- the trial
\* trial.steps(): the steps of every mode.  TRAIN steps are numbered after
\* the EVAL steps here; only the length of this list is ever looked at.
GlobalSteps == trial_steps \cup {MaxStep + t : t \in 1..trial_train}

TrialRunning == pc \in {"wait", "while", "steps", "for", "sleep"}

\* the training job saves a TRAIN step; only trial.steps() of the wait loop
\* sees it
AddTrainStep ==
    /\ pc = "wait" /\ trial_train < MaxTrain
    /\ trial_train' = trial_train + 1
    /\ UNCHANGED <<trial_steps, trial_loaded, trial_ready, trial_var,
                   shapes_match, drops, late_step>>
    /\ UNCHANGED <<loopVars, stepVars, normVars, salVars, auxVars>>

\* the trial reports one more EVAL step
AddStep ==
    /\ TrialRunning
    /\ \E s \in EvalSteps \ trial_steps :
          trial_steps' = trial_steps \cup {s}
    /\ late_step' = (late_step \/ trial_loaded)
    /\ UNCHANGED <<trial_train, trial_loaded, trial_ready, trial_var,
                   shapes_match, drops>>
    /\ UNCHANGED <<loopVars, stepVars, normVars, salVars, auxVars>>

\* every tensor of a reported step now has a value
TensorsReady ==
    /\ TrialRunning
    /\ \E s \in trial_steps \ trial_ready :
          trial_ready' = trial_ready \cup {s}
    /\ UNCHANGED <<trial_steps, trial_train, trial_loaded, trial_var,
                   shapes_match, drops, late_step>>
    /\ UNCHANGED <<loopVars, stepVars, normVars, salVars, auxVars>>

\* the trial stops reporting a step it had reported
DropStep ==
    /\ TrialRunning /\ drops < MaxDrops
    /\ \E s \in trial_steps : trial_steps' = trial_steps \ {s}
    /\ drops' = drops + 1
    /\ UNCHANGED <<trial_train, trial_loaded, trial_ready, trial_var,
                   shapes_match, late_step>>
    /\ UNCHANGED <<loopVars, stepVars, normVars, salVars, auxVars>>

\* trial.loaded_all_steps becomes true
SetLoaded ==
    /\ TrialRunning /\ ~trial_loaded
    /\ trial_loaded' = TRUE
    /\ UNCHANGED <<trial_steps, trial_train, trial_ready, trial_var,
                   shapes_match, drops, late_step>>
    /\ UNCHANGED <<loopVars, stepVars, normVars, salVars, auxVars>>

\* ------------------------------------------------ the wait-for-step loop
PyInt(n) == [type |-> "int", val |-> n]
PyList(q) == [type |-> "list", val |-> q]

\* Python's `steps == 0`: a list never equals the int 0
PyEqZero(v) == v.type = "int" /\ v.val = 0

\* steps = 0
\* while steps == 0:
\*     steps = trial.steps(); print(...); time.sleep(3)
\* rendered_steps = [] ... loaded_all_steps = False
WaitPoll ==
    /\ pc = "wait"
    /\ PyEqZero(steps)
    /\ steps' = PyList(SortedSeq(GlobalSteps))
    /\ pc' = IF PyEqZero(steps') THEN "wait" ELSE "while"
    /\ rendered_steps' = <<>>
    /\ loaded_all_steps' = FALSE
    /\ UNCHANGED <<steps_to_render, todo, plots, unavailable_log, exc>>
    /\ UNCHANGED <<trialVars, stepVars, normVars, salVars, auxVars>>

\* --------------------------------------------------- the rendering loop
\* a while test that reads the trial's flag instead of the local one
WhileConditionLive == ~trial_loaded

\* while not loaded_all_steps:
WhileCondition == ~loaded_all_steps

\* rendered_steps may not grow past this (it grows without end once a
\* rendered step is withdrawn)
MaxRendered == MaxStep + MaxDrops

\* the test fails: print('\nDone')
ExitLoop ==
    /\ pc = "while" /\ ~WhileCondition
    /\ pc' = "done"
    /\ UNCHANGED <<steps, rendered_steps, loaded_all_steps, steps_to_render,
                   todo, plots, unavailable_log, exc>>
    /\ UNCHANGED <<trialVars, stepVars, normVars, salVars, auxVars>>

\* loaded_all_steps = trial.loaded_all_steps
ReadFlag ==
    /\ pc = "while" /\ WhileCondition
    /\ Len(rendered_steps) <= MaxRendered
    /\ loaded_all_steps' = trial_loaded
    /\ pc' = "steps"
    /\ UNCHANGED <<steps, rendered_steps, steps_to_render, todo, plots,
                   unavailable_log, exc>>
    /\ UNCHANGED <<trialVars, stepVars, normVars, salVars, auxVars>>

\* a diff that forgets what was rendered
StepsToRenderAll(st, rendered) == Range(st)

\* a diff that schedules only the first of the new steps
StepsToRenderFirst(st, rendered) ==
    LET new == Range(st) \ Range(rendered)
    IN  IF new = {} THEN {} ELSE {CHOOSE s \in new : \A t \in new : s <= t}

\* the plain difference: reported steps that were not rendered
StepsToRenderDifference(st, rendered) == Range(st) \ Range(rendered)

\* list(set(steps).symmetric_difference(set(rendered_steps)))
StepsToRender(st, rendered) ==
    (Range(st) \ Range(rendered)) \cup (Range(rendered) \ Range(st))

\* steps = trial.steps(mode=modes.EVAL); steps_to_render = ...
GetSteps ==
    /\ pc = "steps"
    /\ steps' = PyList(SortedSeq(trial_steps))
    /\ steps_to_render' = StepsToRender(steps'.val, rendered_steps)
    /\ todo' = SortedSeq(steps_to_render')
    /\ pc' = "for"
    /\ UNCHANGED <<rendered_steps, loaded_all_steps, plots, unavailable_log,
                   exc>>
    /\ UNCHANGED <<trialVars, stepVars, normVars, salVars, auxVars>>

TUFS == "TensorUnavailableForStep"

\* numpy array division a / b: a zero divisor gives inf or NaN and a
\* RuntimeWarning, never an exception
NpDivideExc(a, b) == "none"

\* the exception of -running_mean / np.sqrt(running_var) * weight
ImplicitBiasExc == NpDivideExc(F(1), FSqrt(F(trial_var)))

\* How the try block of step s can end.  A tensor without a value raises
\* TensorUnavailableForStep at its fetch; lists pairing layers of different
\* shapes raise ValueError at bias + implicit_bias or np.broadcast_to, which
\* can come before or after the fetch that fails.
TryOutcomes(s) ==
    LET shape == IF shapes_match THEN "none" ELSE "ValueError"
    IN  IF s \in trial_ready
        THEN {IF ImplicitBiasExc # "none" THEN ImplicitBiasExc ELSE shape}
        ELSE {TUFS} \cup ({shape} \ {"none"})

\* handlers that catch nothing, and everything
CaughtNothing(e) == FALSE
CaughtEverything(e) == e # "none"

\* except TensorUnavailableForStep:
Caught(e) == e = TUFS

\* one iteration of `for step in sorted(steps_to_render)`: the try block and
\* its handler
RenderStep ==
    /\ pc = "for" /\ todo # <<>>
    /\ \E e \in TryOutcomes(Head(todo)) :
          /\ exc' = e
          /\ IF e = "none"
             THEN /\ plots' = [plots EXCEPT ![Head(todo)] = @ + 1]
                  /\ todo' = Tail(todo)
                  /\ UNCHANGED <<pc, unavailable_log>>
             ELSE IF Caught(e)
             THEN /\ unavailable_log' = Append(unavailable_log, Head(todo))
                  /\ todo' = Tail(todo)
                  /\ UNCHANGED <<pc, plots>>
             ELSE /\ pc' = "fatal"
                  /\ UNCHANGED <<todo, plots, unavailable_log>>
    /\ UNCHANGED <<steps, rendered_steps, loaded_all_steps, steps_to_render>>
    /\ UNCHANGED <<trialVars, stepVars, normVars, salVars, auxVars>>

\* an extend that leaves out the steps whose try block was skipped
ExtendedByPlotted(rendered, to_render) ==
    rendered \o SortedSeq(to_render \ Range(unavailable_log))

\* the list after rendered_steps.extend(steps_to_render)
Extended(rendered, to_render) == rendered \o SortedSeq(to_render)

\* rendered_steps.extend(steps_to_render)
EndPass ==
    /\ pc = "for" /\ todo = <<>>
    /\ rendered_steps' = Extended(rendered_steps, steps_to_render)
    /\ pc' = "sleep"
    /\ UNCHANGED <<steps, loaded_all_steps, steps_to_render, todo, plots,
                   unavailable_log, exc>>
    /\ UNCHANGED <<trialVars, stepVars, normVars, salVars, auxVars>>

\* time.sleep(5)
Sleep ==
    /\ pc = "sleep"
    /\ pc' = "while"
    /\ UNCHANGED <<steps, rendered_steps, loaded_all_steps, steps_to_render,
                   todo, plots, unavailable_log, exc>>
    /\ UNCHANGED <<trialVars, stepVars, normVars, salVars, auxVars>>

Init ==
    /\ pc = "wait" /\ steps = PyInt(0)
    /\ rendered_steps = <<>> /\ loaded_all_steps = FALSE
    /\ steps_to_render = {} /\ todo = <<>>
    /\ plots = [s \in EvalSteps |-> 0] /\ unavailable_log = <<>>
    /\ exc = "none"
    /\ trial_steps = {} /\ trial_train = 0 /\ trial_loaded = FALSE
    /\ trial_ready = {} /\ drops = 0 /\ late_step = FALSE
    /\ trial_var \in {0, 1}
    /\ shapes_match \in BOOLEAN
    /\ StepIdle /\ NormIdle /\ SalIdle /\ AuxIdle

\* The trial's step lists only grow while a job runs: the notebook's loops
\* with such a trial.
Next ==
    \/ AddTrainStep \/ AddStep \/ TensorsReady \/ SetLoaded
    \/ WaitPoll \/ ExitLoop \/ ReadFlag \/ GetSteps \/ RenderStep
    \/ EndPass \/ Sleep

Spec == Init /\ [][Next]_vars

\* The same loops with a data source that may also withdraw steps.
NextShrink == Next \/ DropStep

SpecShrink == Init /\ [][NextShrink]_vars

\* -------------------------------------------- claims on the polling loops
\* a try block ran in this step
TryBlockRan == pc = "for" /\ todo # <<>> /\ (todo' # todo \/ pc' # pc)

\* the trial's step set only grew, and no step appeared after the flag was set
SourceWellBehaved == drops = 0 /\ ~late_step

\* C1: for a source whose step set only grows, whose tensors are there for
\* every step it reports (no TensorUnavailableForStep was raised) and whose
\* flag is set only after the last step was reported, the loop has plotted
\* every reported step exactly once, and no other step, when it exits.
C1_ExactlyOnce ==
    (pc = "done" /\ SourceWellBehaved /\ unavailable_log = <<>>) =>
        \A s \in EvalSteps : plots[s] = (IF s \in trial_steps THEN 1 ELSE 0)

\* the loop exited after rendering every step once, in at least two passes
\* (a later pass rendered a smaller step number than an earlier one)
C1_Witness ==
    /\ pc = "done" /\ SourceWellBehaved /\ unavailable_log = <<>>
    /\ trial_steps = EvalSteps
    /\ \A s \in EvalSteps : plots[s] = 1
    /\ \E i \in 1..(Len(rendered_steps) - 1) :
          rendered_steps[i] > rendered_steps[i + 1]

\* C2: when the rendering loop exits, every step the source reported to it
\* has been plotted (stated for a source whose step set only grows).
C2_AllReportedPlotted ==
    (pc = "done" /\ SourceWellBehaved) =>
        \A s \in Range(rendered_steps) : plots[s] >= 1

\* C3: a poll of the wait loop at which trial.steps() reports no step leaves
\* the notebook in the wait loop.
C3_WaitsForFirstStep ==
    [][(pc = "wait" /\ GlobalSteps = {}) => pc' = "wait"]_vars

\* C4: the rendering loop exits exactly when its flag was read true: with the
\* flag false the while test starts another iteration, which reads the
\* trial's flag and then its step list; with the flag true it exits.  The
\* exit is reached only from the while test, the while test only from the
\* sleep that ends an iteration, and an iteration that read the flag true
\* goes through its rendering pass and one sleep without reading the flag or
\* the step list again (an uncaught exception ends the cell, not the loop's
\* own exit).
C4_ExitIffFlag ==
    [][/\ (pc = "while" /\ loaded_all_steps) => pc' \in {"while", "done"}
       /\ (pc = "while" /\ ~loaded_all_steps) =>
             \/ pc' = "while" /\ loaded_all_steps' = loaded_all_steps
             \/ pc' = "steps" /\ loaded_all_steps' = trial_loaded
       /\ (pc' = "done" /\ pc # "done") => (pc = "while" /\ loaded_all_steps)
       /\ (pc' = "while" /\ pc # "while") => pc \in {"wait", "sleep"}
       /\ (pc = "steps") => pc' \in {"steps", "for"}
       /\ (pc = "for") => pc' \in {"for", "sleep", "fatal"}
       /\ (pc' = "fatal" /\ pc # "fatal") => exc' \notin {"none", TUFS}
       /\ (pc = "sleep") => pc' \in {"sleep", "while"}
       /\ (pc \notin {"while", "wait"}) => loaded_all_steps' = loaded_all_steps
       /\ (steps' # steps) => pc \in {"wait", "steps"}
       /\ (pc = "done") => pc' = "done"
      ]_vars

\* the loop exited after an iteration that read the flag true and rendered
\* a step in its pass
C4_Witness ==
    /\ pc = "done" /\ loaded_all_steps
    /\ steps_to_render # {} /\ \E s \in steps_to_render : plots[s] >= 1

\* C5: a TensorUnavailableForStep raised by a step's try block is caught for
\* that step alone: the step is logged, nothing is plotted for it, the pass
\* goes on with the remaining steps, all greater than it, and the loop is
\* not terminated.
C5_UnavailableCaught ==
    [][(TryBlockRan /\ exc' = TUFS) =>
          /\ pc' = "for"
          /\ unavailable_log' = Append(unavailable_log, Head(todo))
          /\ plots' = plots
          /\ todo' = Tail(todo)
          /\ \A i \in 1..Len(todo') : todo'[i] > Head(todo)
          /\ loaded_all_steps' = loaded_all_steps
      ]_vars

\* a step was logged as unavailable, a greater step of the same pass was
\* plotted after it, and the loop is still polling
C5_Witness ==
    /\ pc = "sleep"
    /\ unavailable_log # <<>>
    /\ \E s \in steps_to_render :
          /\ s > unavailable_log[Len(unavailable_log)]
          /\ unavailable_log[Len(unavailable_log)] \in steps_to_render
          /\ plots[s] >= 1

\* C7 as amended: an exception other than TensorUnavailableForStep raised in
\* a try block is not caught and ends the loop: nothing is plotted, logged or
\* polled afterwards.  A zero running variance raises nothing.
C7_OtherErrorsFatal ==
    [][/\ (TryBlockRan /\ exc' \notin {"none", TUFS}) => pc' = "fatal"
       /\ (pc = "fatal") => UNCHANGED loopVars
       /\ (pc' = "fatal" /\ pc # "fatal") =>
             (exc' = "ValueError" /\ plots' = plots)
      ]_vars

\* a ValueError ended the loop while a step was still to be rendered
C7_Witness ==
    /\ pc = "fatal" /\ exc = "ValueError"
    /\ Len(todo) >= 2

\* C7 as stated: also a division by zero in the implicit-bias computation
\* (running variance zero) ends the loop.
C7_ZeroVarianceFatal ==
    [][(TryBlockRan /\ Head(todo) \in trial_ready /\ trial_var = 0) =>
          pc' = "fatal"
      ]_vars

\* ------------------------------------------------- one step's try block
\* The tensors the try block fetches for a step, by name; layer tensors
\* carry the index of their name in the list.
Layers == 1..NLayers
InputTensor == <<"ResNet_input_0", 0>>
ImageGradientTensor == <<"gradient/image", 0>>
FcOutputTensor == <<"fc_output_0", 0>>

\* fetched by compute_implicit_biases
ImplicitBiasTensors ==
    {<<k, i>> : k \in {"weight", "running_var", "running_mean"}, i \in Layers}

\* an item body that plots without the fc output
ItemTensorsNoFc ==
    {ImageGradientTensor} \cup {<<k, i>> : k \in {"gradient", "bias"}, i \in Layers}

\* fetched by the body of `for item in range(image_batch.shape[0])` before
\* it calls plot
ItemTensors ==
    {ImageGradientTensor, FcOutputTensor}
        \cup {<<k, i>> : k \in {"gradient", "bias"}, i \in Layers}

StepTensors ==
    {InputTensor, ImageGradientTensor, FcOutputTensor}
        \cup {<<k, i>> : k \in {"weight", "running_var", "running_mean",
                                "gradient", "bias"}, i \in Layers}

InitStep ==
    /\ step_pc = "input" /\ step_avail = {} /\ item = 0 /\ plotted = 0
    /\ LoopIdle /\ NormIdle /\ SalIdle /\ AuxIdle

\* the trial loads a tensor of the step; a loaded tensor stays loaded
TensorArrives ==
    /\ step_pc \in {"input", "implicit", "item"}
    /\ \E t \in StepTensors \ step_avail : step_avail' = step_avail \cup {t}
    /\ UNCHANGED <<step_pc, item, plotted, loopVars, trialVars, normVars, salVars,
                   auxVars>>

\* image_batch = trial.tensor("ResNet_input_0").value(step_num=step, ...)
FetchInput ==
    /\ step_pc = "input"
    /\ step_pc' = IF InputTensor \in step_avail THEN "implicit" ELSE "caught"
    /\ UNCHANGED <<step_avail, item, plotted, loopVars, trialVars, normVars, salVars,
                   auxVars>>

\* implicit_biases = compute_implicit_biases(bn_weights, running_vars,
\*                                           running_means, step)
ComputeImplicitBiases ==
    /\ step_pc = "implicit"
    /\ step_pc' = IF ImplicitBiasTensors \subseteq step_avail
                  THEN "item" ELSE "caught"
    /\ UNCHANGED <<step_avail, item, plotted, loopVars, trialVars, normVars, salVars,
                   auxVars>>

\* one batch item: fetch the image gradient, each layer's gradient and bias
\* and the fc output, then plot
RenderItem ==
    /\ step_pc = "item" /\ item < BatchSize
    /\ IF ItemTensors \subseteq step_avail
       THEN /\ plotted' = plotted + 1
            /\ item' = item + 1
            /\ UNCHANGED step_pc
       ELSE /\ step_pc' = "caught"
            /\ UNCHANGED <<item, plotted>>
    /\ UNCHANGED <<step_avail, loopVars, trialVars, normVars, salVars,
                   auxVars>>

\* the item loop is over
EndStep ==
    /\ step_pc = "item" /\ item = BatchSize
    /\ step_pc' = "end"
    /\ UNCHANGED <<step_avail, item, plotted, loopVars, trialVars, normVars, salVars,
                   auxVars>>

NextStep ==
    \/ TensorArrives \/ FetchInput \/ ComputeImplicitBiases \/ RenderItem
    \/ EndStep

SpecStep == InitStep /\ [][NextStep]_vars

\* C6: no step is partially rendered: a step whose try block is over has all
\* of its batch items plotted or none, none when a tensor was unavailable,
\* and an item is plotted only when every tensor of the step has a value.
C6_NoPartialRender ==
    /\ (step_pc \in {"caught", "end"}) => plotted \in {0, BatchSize}
    /\ (step_pc = "caught") => plotted = 0
    /\ (step_pc = "end") => plotted = BatchSize
    /\ (plotted > 0) => StepTensors \subseteq step_avail

\* the input and the batch-norm tensors were there, a tensor of the item
\* body was not: the step was given up with nothing plotted
C6_Witness ==
    /\ step_pc = "caught" /\ plotted = 0
    /\ InputTensor \in step_avail
    /\ ImplicitBiasTensors \subseteq step_avail
    /\ ImageGradientTensor \in step_avail
    /\ FcOutputTensor \notin step_avail

\* ------------------------------------------------------------- normalize
TensorValues == {F(v) : v \in -MaxVal..MaxVal}

InitNorm ==
    /\ norm_pc = "input"
    /\ tensor \in [1..TLen -> TensorValues]
    /\ normalized = <<>>
    /\ LoopIdle /\ StepIdle /\ SalIdle /\ AuxIdle

\* one call of normalize(tensor)
Normalize ==
    /\ norm_pc = "input"
    /\ normalized' = normalize(tensor)
    /\ norm_pc' = "done"
    /\ UNCHANGED <<tensor, loopVars, trialVars, stepVars, salVars, auxVars>>

NextNorm == Normalize

SpecNorm == InitNorm /\ [][NextNorm]_vars

\* C8: for every non-constant tensor T, normalize(T) has all its values in
\* [0,1], its minimum is exactly 0 and its maximum exactly 1.
C8_NormalizeUnitRange ==
    (norm_pc = "done" /\ ~IsConstant(tensor)) =>
        /\ \A i \in DOMAIN normalized : InUnit(normalized[i])
        /\ NpMin(normalized) = F(0)
        /\ NpMax(normalized) = F(1)

\* a non-constant tensor was normalized and one of its values lies strictly
\* between the minimum and the maximum
C8_Witness ==
    /\ norm_pc = "done" /\ ~IsConstant(tensor)
    /\ \E i \in DOMAIN normalized :
          FLess(F(0), normalized[i]) /\ FLess(normalized[i], F(1))

\* C9: for a tensor whose elements are all equal normalize does not divide by
\* zero: every element of the result is a defined number (not NaN).
C9_ConstantGuarded ==
    (norm_pc = "done" /\ IsConstant(tensor)) =>
        \A i \in DOMAIN normalized : IsFinite(normalized[i])

\* ------------------------------------------- the saliency map of one item
Chans == 1..NChan
Pixels == 1..ImageSize
LChans == 1..LayerChan
LPixels == 1..LayerSize

\* values the trial's tensors take in the model
ImageValues == {F(1), F(2)}
ImageGradientValues == {F(0), F(-1)}
GradientValues == {F(0), F(-2)}
BiasValues == {F(0), F(1)}
WeightValues == {F(1), F(2)}
RunningVarValues == {F(0), F(1), F(4)}
RunningMeanValues == {F(-1), F(0), F(1)}

MinInt(a, b) == IF a < b THEN a ELSE b

RECURSIVE FSum(_, _)
\* the sum of f[i] over i in S
FSum(f, S) ==
    IF S = {} THEN F(0)
    ELSE LET i == CHOOSE x \in S : TRUE
         IN  FAdd(f[i], FSum(f, S \ {i}))

\* np.abs(a * b), elementwise
AbsProduct(a, b) == [i \in DOMAIN a |-> FAbs(FMul(a[i], b[i]))]

\* np.sum(T, axis=0) of a (channel, pixel) tensor
SumChannels(T) ==
    [p \in Pixels |-> FSum([c \in Chans |-> T[<<c, p>>]], Chans)]

\* image_gradient = np.sum(normalize(np.abs(image_gradient * image)), axis=0)
BaseTerm(img, grad) == SumChannels(normalize(AbsProduct(grad, img)))

\* an implicit bias that divides by running_var instead of its square root
ImplicitBiasNoSqrt(weight, running_var, running_mean) ==
    [c \in DOMAIN weight |->
        FMul(FDiv(FNeg(running_mean[c]), running_var[c]), weight[c])]

\* an implicit bias whose numerator is 1 - running_mean
ImplicitBiasShifted(weight, running_var, running_mean) ==
    [c \in DOMAIN weight |->
        FMul(FDiv(FSub(F(1), running_mean[c]), FSqrt(running_var[c])),
             weight[c])]

\* - running_mean / np.sqrt(running_var) * weight, elementwise
ImplicitBias(weight, running_var, running_mean) ==
    [c \in DOMAIN weight |->
        FMul(FDiv(FNeg(running_mean[c]), FSqrt(running_var[c])), weight[c])]

\* a function that gives up on lists of different lengths
compute_implicit_biases_equal_only(ws, vs, ms) ==
    IF Len(ws) = Len(vs) /\ Len(vs) = Len(ms)
    THEN [i \in 1..Len(ws) |-> ImplicitBias(ws[i], vs[i], ms[i])]
    ELSE <<>>

\* compute_implicit_biases: one entry per triple of zip(bn_weights,
\* running_vars, running_means)
compute_implicit_biases(ws, vs, ms) ==
    [i \in 1..MinInt(Len(ws), MinInt(Len(vs), Len(ms))) |->
        ImplicitBias(ws[i], vs[i], ms[i])]

\* bias = bias + implicit_bias; broadcast over the gradient;
\* bias_gradient = normalize(np.abs(bias * gradient))
BiasGradient(gradient, bias, implicit_bias) ==
    normalize([i \in DOMAIN gradient |->
        FAbs(FMul(FAdd(bias[i[1]], implicit_bias[i[1]]), gradient[i]))])

\* scipy.ndimage.zoom(row, out / Len(row), order=1) along one dimension:
\* output o samples the input at (o-1)(n-1)/(out-1), linearly interpolated
Zoom(row, out) ==
    LET n == Len(row)
    IN  [o \in 1..out |->
            IF n = 1 \/ out = 1 THEN row[1]
            ELSE LET num == (o - 1) * (n - 1)
                     i0 == num \div (out - 1)
                     frac == Val(num % (out - 1), out - 1)
                 IN  IF frac = F(0) THEN row[i0 + 1]
                     ELSE FAdd(FMul(row[i0 + 1], FSub(F(1), frac)),
                               FMul(row[i0 + 2], frac))]

RECURSIVE AddChannels(_, _, _)
\* for channel in range(bias_gradient.shape[1]):
\*     saliency_map += zoom(bias_gradient[0, channel, :, :], ...)
AddChannels(sal, bg, c) ==
    IF c > LayerChan THEN sal
    ELSE LET interpolated == Zoom([q \in LPixels |-> bg[<<c, q>>]], ImageSize)
         IN  AddChannels([p \in Pixels |-> FAdd(sal[p], interpolated[p])],
                         bg, c + 1)

InitSal ==
    /\ sal_pc = "implicit" /\ image = <<>> /\ image_gradient = <<>>
    /\ implicit_biases = <<>> /\ saliency_map = <<>> /\ layer = 0
    /\ LoopIdle /\ StepIdle /\ NormIdle /\ AuxIdle

\* implicit_biases = compute_implicit_biases(bn_weights, running_vars,
\*                                           running_means, step)
SalImplicitBiases ==
    /\ sal_pc = "implicit"
    /\ \E ws \in [1..NLayers -> [LChans -> WeightValues]],
          vs \in [1..NLayers -> [LChans -> RunningVarValues]],
          ms \in [1..NLayers -> [LChans -> RunningMeanValues]] :
          implicit_biases' = compute_implicit_biases(ws, vs, ms)
    /\ sal_pc' = "fetch"
    /\ UNCHANGED <<image, image_gradient, saliency_map, layer>>
    /\ UNCHANGED <<loopVars, trialVars, stepVars, normVars, auxVars>>

\* image = image_batch[item,:,:,:]
\* image_gradient = trial.tensor("gradient/image").value(...)[item,:]
SalFetchImage ==
    /\ sal_pc = "fetch"
    /\ image' \in [Chans \X Pixels -> ImageValues]
    /\ image_gradient' \in [Chans \X Pixels -> ImageGradientValues]
    /\ sal_pc' = "base"
    /\ UNCHANGED <<implicit_biases, saliency_map, layer>>
    /\ UNCHANGED <<loopVars, trialVars, stepVars, normVars, auxVars>>

\* image_gradient = np.sum(normalize(np.abs(image_gradient * image)), axis=0)
\* saliency_map = image_gradient
SalBaseTerm ==
    /\ sal_pc = "base"
    /\ image_gradient' = BaseTerm(image, image_gradient)
    /\ saliency_map' = image_gradient'
    /\ layer' = 1
    /\ sal_pc' = "layers"
    /\ UNCHANGED <<image, implicit_biases>>
    /\ UNCHANGED <<loopVars, trialVars, stepVars, normVars, auxVars>>

\* one iteration of `for gradient_name, bias_name, implicit_bias in zip(...)`;
\* saliency_map and image_gradient name the same array
SalAddLayer ==
    /\ sal_pc = "layers" /\ layer <= Len(implicit_biases)
    /\ \E gradient \in [LChans \X LPixels -> GradientValues],
          bias \in [LChans -> BiasValues] :
          saliency_map' =
              AddChannels(saliency_map,
                          BiasGradient(gradient, bias, implicit_biases[layer]),
                          1)
    /\ image_gradient' = saliency_map'
    /\ layer' = layer + 1
    /\ UNCHANGED <<sal_pc, image, implicit_biases>>
    /\ UNCHANGED <<loopVars, trialVars, stepVars, normVars, auxVars>>

\* saliency_map = normalize(saliency_map)
SalFinalNormalize ==
    /\ sal_pc = "layers" /\ layer > Len(implicit_biases)
    /\ saliency_map' = normalize(saliency_map)
    /\ sal_pc' = "done"
    /\ UNCHANGED <<image, image_gradient, implicit_biases, layer>>
    /\ UNCHANGED <<loopVars, trialVars, stepVars, normVars, auxVars>>

NextSal ==
    \/ SalImplicitBiases \/ SalFetchImage \/ SalBaseTerm \/ SalAddLayer
    \/ SalFinalNormalize

SpecSal == InitSal /\ [][NextSal]_vars

\* every implicit bias is a finite number (no running variance was zero)
ImplicitBiasesFinite ==
    \A i \in DOMAIN implicit_biases :
        \A c \in DOMAIN implicit_biases[i] : IsFinite(implicit_biases[i][c])

\* C10: the final saliency map of an item has all its values in [0,1], with
\* minimum 0 and maximum 1 whenever the accumulated map is not constant
\* (stated for finite implicit biases).
C10_FinalMapInUnit ==
    [][(sal_pc = "layers" /\ sal_pc' = "done" /\ ImplicitBiasesFinite) =>
          /\ \A p \in Pixels : InUnit(saliency_map'[p])
          /\ ~IsConstant(saliency_map) =>
                (NpMin(saliency_map') = F(0) /\ NpMax(saliency_map') = F(1))
      ]_vars

\* --------------------------------------------------------- the base term
\* C11: the base term of an item is normalize applied to the channel sum of
\* |image_gradient * image| (sum first, then min-max normalize), so all its
\* values lie in [0,1].  Stated for inputs where neither |gradient * image|
\* nor its channel sum is constant, so that both normalizations are defined.
C11_BaseTermSumThenNormalize ==
    [][(/\ sal_pc = "base" /\ sal_pc' = "layers"
        /\ ~IsConstant(AbsProduct(image_gradient, image))
        /\ ~IsConstant(SumChannels(AbsProduct(image_gradient, image)))) =>
          /\ saliency_map' =
                normalize(SumChannels(AbsProduct(image_gradient, image)))
          /\ \A p \in Pixels : InUnit(saliency_map'[p])
      ]_vars

\* ------------------------------------------- compute_implicit_biases
\* The batch-norm layers the trial has tensors for.
BnLayers == 1..(NLayers + 1)

\* the values a batch-norm tensor cycles through, per kind
WeightCycle == <<F(1), F(2)>>
RunningVarCycle == <<F(1), F(4), F(0)>>
RunningMeanCycle == <<F(1), F(0), F(-1)>>
TrialSeeds == (0..1) \X (0..2) \X (0..2)

Cycle(q, k) == q[(k % Len(q)) + 1]

\* trial.tensor(name).value(step_num=s, mode=modes.EVAL) for the weight,
\* running_var and running_mean tensor of batch-norm layer l: a vector over
\* the layer's channels that differs from layer to layer and step to step
TrialWeight(l, s) ==
    [c \in LChans |-> Cycle(WeightCycle, trial_seed[1] + l + s + c)]
TrialRunningVar(l, s) ==
    [c \in LChans |-> Cycle(RunningVarCycle, trial_seed[2] + l + s + c)]
TrialRunningMean(l, s) ==
    [c \in LChans |->
        FMul(F(mean_sign),
             Cycle(RunningMeanCycle, trial_seed[3] + l + 2 * s + c))]

\* a list of tensor names as trial.tensor_names(regex=...) returns it: some
\* of the layers, each once, in some order
RECURSIVE NameLists(_)
NameLists(S) ==
    {<<>>} \cup UNION {{<<l>> \o q : q \in NameLists(S \ {l})} : l \in S}

InitBias ==
    /\ bias_pc = "call"
    /\ bn_weights \in NameLists(BnLayers)
    /\ running_vars \in NameLists(BnLayers)
    /\ running_means \in NameLists(BnLayers)
    /\ step \in EvalSteps
    /\ trial_seed \in TrialSeeds
    /\ mean_sign = 1 /\ first_biases = <<>>
    /\ UtilIdle /\ LoopIdle /\ StepIdle /\ NormIdle /\ SalIdle /\ AccIdle /\ ItemsIdle
    /\ PlotIdle /\ JobIdle /\ EndpointIdle

\* implicit_biases = compute_implicit_biases(bn_weights, running_vars,
\*                                           running_means, step)
CallComputeImplicitBiases ==
    /\ bias_pc \in {"call", "call_negated"}
    /\ implicit_biases' =
          compute_implicit_biases(
              [i \in 1..Len(bn_weights) |-> TrialWeight(bn_weights[i], step)],
              [i \in 1..Len(running_vars) |->
                  TrialRunningVar(running_vars[i], step)],
              [i \in 1..Len(running_means) |->
                  TrialRunningMean(running_means[i], step)])
    /\ bias_pc' = IF bias_pc = "call" THEN "returned" ELSE "returned_negated"
    /\ UNCHANGED <<bn_weights, running_vars, running_means, step, trial_seed,
                   mean_sign, first_biases>>
    /\ UNCHANGED <<sal_pc, image, image_gradient, saliency_map, layer>>
    /\ UNCHANGED <<utilVars, loopVars, trialVars, stepVars, normVars, accVars,
                   itemVars, plotVars, jobVars, endpointVars>>

\* every running_mean tensor of the trial is replaced by its negation; the
\* weights and running variances stay as they are
NegateRunningMeans ==
    /\ bias_pc = "returned"
    /\ first_biases' = implicit_biases
    /\ mean_sign' = -1
    /\ bias_pc' = "call_negated"
    /\ UNCHANGED <<bn_weights, running_vars, running_means, step, trial_seed>>
    /\ UNCHANGED <<utilVars, loopVars, trialVars, stepVars, normVars, salVars, accVars,
                   itemVars, plotVars, jobVars, endpointVars>>

NextBias == CallComputeImplicitBiases \/ NegateRunningMeans

SpecBias == InitBias /\ [][NextBias]_vars

\* -m * w / sqrt(v) for integer-valued floats m, w and a perfect square v,
\* in integer arithmetic; a zero v gives the IEEE infinity or NaN
ExpectedImplicitBias(w, v, m) ==
    IF v[1] > 0 THEN Val(-(m[1] * w[1]), ISqrt(v[1]))
    ELSE IF m[1] = 0 THEN NaN
    ELSE <<Sign(-(m[1] * w[1])), 0>>

EqualLengthLists ==
    Len(bn_weights) = Len(running_vars) /\ Len(running_vars) = Len(running_means)

\* C13: for name lists of equal length n, compute_implicit_biases returns a
\* list of length n whose i-th element is, channel by channel,
\* -running_mean / sqrt(running_var) * weight of the tensors the i-th names
\* of the three lists have at the requested step.
C13_ImplicitBiasPerLayer ==
    (bias_pc = "returned" /\ EqualLengthLists) =>
        /\ Len(implicit_biases) = Len(bn_weights)
        /\ \A i \in 1..Len(bn_weights) :
              /\ DOMAIN implicit_biases[i] = LChans
              /\ \A c \in LChans :
                    implicit_biases[i][c] =
                        ExpectedImplicitBias(
                            TrialWeight(bn_weights[i], step)[c],
                            TrialRunningVar(running_vars[i], step)[c],
                            TrialRunningMean(running_means[i], step)[c])

\* the function returned for lists of all the layers, given in different
\* orders, with an element that is neither zero, infinite nor NaN and a
\* running variance other than 1
C13_Witness ==
    /\ bias_pc = "returned" /\ EqualLengthLists
    /\ Len(bn_weights) = NLayers + 1
    /\ bn_weights # running_vars
    /\ \E i \in 1..Len(implicit_biases) : \E c \in LChans :
          /\ IsFinite(implicit_biases[i][c]) /\ implicit_biases[i][c] # F(0)
          /\ TrialRunningVar(running_vars[i], step)[c] = F(4)

\* C14: with the weights and running variances unchanged, negating every
\* running mean negates the implicit bias elementwise (an element that was
\* NaN, from a zero mean over a zero variance, stays NaN).
C14_AntisymmetricInMean ==
    (bias_pc = "returned_negated") =>
        /\ Len(implicit_biases) = Len(first_biases)
        /\ \A i \in 1..Len(first_biases) : \A c \in LChans :
              IF IsNaN(first_biases[i][c])
              THEN IsNaN(implicit_biases[i][c])
              ELSE implicit_biases[i][c] = FNeg(first_biases[i][c])

\* both calls returned and an implicit bias changed its sign
C14_Witness ==
    /\ bias_pc = "returned_negated"
    /\ \E i \in 1..Len(first_biases) : \E c \in LChans :
          /\ IsFinite(first_biases[i][c])
          /\ FLess(F(0), first_biases[i][c])
          /\ FLess(implicit_biases[i][c], F(0))

\* ------------------------------ the accumulation over the paired lists
\* gradients, biases and the lists implicit_biases is computed from are
\* built by separate trial.tensor_names(regex=...) calls: each holds every
\* layer once, in an order of its own
FullNameLists(S) == {q \in NameLists(S) : Len(q) = Cardinality(S)}

AccSeeds == (0..1) \X (0..2) \X (0..1)

\* element k of a tensor: seed 0 is the constant tensor, other seeds shift
\* the cycle of values
Pattern(q, seed, k) == IF seed = 0 THEN q[1] ELSE Cycle(q, seed + k)

\* the tensors of the trial for the item: "ResNet_input_0", "gradient/image"
\* and, for layer l, its gradient, bias and implicit bias; layer l has
\* layer_chan[l] channels
AccImage ==
    [i \in Chans \X Pixels |->
        Pattern(<<F(1), F(2)>>, acc_seed[1], (i[1] - 1) * ImageSize + i[2])]
AccImageGradient ==
    [i \in Chans \X Pixels |->
        Pattern(<<F(-1), F(0), F(-1)>>, acc_seed[1],
                (i[1] - 1) * ImageSize + i[2])]
AccGradient(l) ==
    [i \in (1..layer_chan[l]) \X LPixels |->
        Pattern(<<F(0), F(-2), F(1)>>, acc_seed[2],
                l + (i[1] - 1) * LayerSize + i[2])]
AccBias(l) ==
    [c \in 1..layer_chan[l] |-> Pattern(<<F(0), F(1)>>, acc_seed[3], l + c)]
AccImplicitBias(l) ==
    [c \in 1..layer_chan[l] |->
        Pattern(<<F(1), F(-1), F(0)>>, acc_seed[3], l + c)]

\* numpy broadcasting of two 1-D shapes; 0 stands for the ValueError
BroadcastLen(a, b) ==
    IF a = b THEN a ELSE IF a = 1 THEN b ELSE IF b = 1 THEN a ELSE 0
\* element c of a vector broadcast along its axis
At(v, c) == v[IF Len(v) = 1 THEN 1 ELSE c]

\* a check of layer identity: raise whenever the three names belong to
\* different layers
LayerRaisesOnMisaligned(g, b, i) == g # b \/ b # i

\* bias + implicit_bias, or np.broadcast_to(bias, gradient.shape), raises
\* ValueError for the tensors of layers b, i and g
LayerRaises(g, b, i) ==
    LET n == BroadcastLen(layer_chan[b], layer_chan[i])
    IN  n = 0 \/ (n # layer_chan[g] /\ n # 1)

\* the arrays one iteration of the zip loop adds into saliency_map: one
\* interpolated array per channel of bias_gradient (n channels)
InterpolatedArrays(gradient, bias, implicit_bias, n) ==
    LET bg == BiasGradient(gradient,
                           [c \in 1..n |-> At(bias, c)],
                           [c \in 1..n |-> At(implicit_bias, c)])
    IN  [c \in 1..n |-> Zoom([q \in LPixels |-> bg[<<c, q>>]], ImageSize)]

Interpolated(g, b, k) ==
    InterpolatedArrays(AccGradient(g), AccBias(b), implicit_biases[k],
                       layer_chan[g])

\* saliency_map += interpolated, for each of the arrays
AddInto(sal, arrays) ==
    [p \in Pixels |->
        FAdd(sal[p], FSum([c \in DOMAIN arrays |-> arrays[c][p]],
                          DOMAIN arrays))]

\* the triples zip(gradients, biases, implicit_biases) yields: zip stops at
\* the end of its shortest argument
ZipLength ==
    MinInt(Len(gradients), MinInt(Len(biases), Len(implicit_biases)))

InitAcc ==
    /\ sal_pc = "base"
    /\ gradients \in FullNameLists(BnLayers)
    /\ biases \in FullNameLists(BnLayers)
    /\ bn_names \in FullNameLists(BnLayers)
    /\ layer_chan \in [BnLayers -> {LayerChan, LayerChan + 1}]
    /\ acc_seed \in AccSeeds
    /\ image = AccImage /\ image_gradient = AccImageGradient
    /\ implicit_biases = [k \in 1..Len(bn_names) |-> AccImplicitBias(bn_names[k])]
    /\ saliency_map = <<>> /\ layer = 0 /\ added = <<>>
    /\ UtilIdle /\ LoopIdle /\ StepIdle /\ NormIdle /\ BiasIdle /\ ItemsIdle /\ PlotIdle
    /\ JobIdle /\ EndpointIdle

\* image_gradient = np.sum(normalize(np.abs(image_gradient * image)), axis=0)
\* saliency_map = image_gradient
AccBaseTerm ==
    /\ sal_pc = "base"
    /\ image_gradient' = BaseTerm(image, image_gradient)
    /\ saliency_map' = image_gradient'
    /\ added' = <<saliency_map'>>
    /\ layer' = 1
    /\ sal_pc' = "layers"
    /\ UNCHANGED <<image, implicit_biases, gradients, biases, bn_names,
                   layer_chan, acc_seed>>
    /\ UNCHANGED <<utilVars, loopVars, trialVars, stepVars, normVars, biasVars,
                   itemVars, plotVars, jobVars, endpointVars>>

\* one iteration of `for gradient_name, bias_name, implicit_bias in
\* zip(gradients, biases, implicit_biases)`: a ValueError ends the cell
AccAddLayer ==
    /\ sal_pc = "layers" /\ layer <= ZipLength
    /\ IF LayerRaises(gradients[layer], biases[layer], bn_names[layer])
       THEN /\ sal_pc' = "raised"
            /\ UNCHANGED <<saliency_map, image_gradient, added, layer>>
       ELSE LET arrays == Interpolated(gradients[layer], biases[layer], layer)
            IN  /\ saliency_map' = AddInto(saliency_map, arrays)
                /\ image_gradient' = saliency_map'
                /\ added' = added \o arrays
                /\ layer' = layer + 1
                /\ UNCHANGED sal_pc
    /\ UNCHANGED <<image, implicit_biases, gradients, biases, bn_names,
                   layer_chan, acc_seed>>
    /\ UNCHANGED <<utilVars, loopVars, trialVars, stepVars, normVars, biasVars,
                   itemVars, plotVars, jobVars, endpointVars>>

\* saliency_map = normalize(saliency_map)
AccFinalNormalize ==
    /\ sal_pc = "layers" /\ layer > ZipLength
    /\ saliency_map' = normalize(saliency_map)
    /\ sal_pc' = "done"
    /\ UNCHANGED <<image, image_gradient, implicit_biases, layer, accVars>>
    /\ UNCHANGED <<utilVars, loopVars, trialVars, stepVars, normVars, biasVars,
                   itemVars, plotVars, jobVars, endpointVars>>

NextAcc == AccBaseTerm \/ AccAddLayer \/ AccFinalNormalize

SpecAcc == InitAcc /\ [][NextAcc]_vars

\* no array added so far holds a NaN (no normalize ran on a constant tensor)
AddendsDefined ==
    \A k \in DOMAIN added : \A p \in Pixels : ~IsNaN(added[k][p])

\* C12: every array added into saliency_map, the base term and each
\* interpolated per-layer array, has all its values in [0,1] when it is
\* added (stated for arrays without NaN).
C12_AddendsInUnit ==
    AddendsDefined =>
        \A k \in DOMAIN added : \A p \in Pixels : InUnit(added[k][p])

\* the three lists pair every layer with its own tensors (in some order)
Aligned == gradients = biases /\ biases = bn_names

\* C15: whatever the order in which the layers are listed, jointly in the
\* three lists, the final map has all its values in [0,1].
C15_OrderIndependentBound ==
    (sal_pc = "done" /\ Aligned) => \A p \in Pixels : InUnit(saliency_map[p])

\* the tensors paired at position k of the lists have the same number of
\* channels
SameShapesAt(k) ==
    /\ layer_chan[gradients[k]] = layer_chan[biases[k]]
    /\ layer_chan[biases[k]] = layer_chan[bn_names[k]]

TrialRefs ==
    {<<n, 0, s>> : n \in {"ResNet_input_0", "gradient/image"}, s \in EvalSteps}
    \cup {<<n, l, s>> : n \in {"gradient", "bias"}, l \in BnLayers,
                        s \in EvalSteps}

\* what the trial recorded: batches of images, of image gradients and of
\* layer gradients, and the bias vector of each layer
TrialContent(r) ==
    LET s == r[3]
        l == r[2]
    IN  CASE r[1] = "ResNet_input_0" ->
               [it \in 1..BatchSize |->
                   [i \in Chans \X Pixels |->
                       Pattern(<<F(1), F(2)>>, acc_seed[1],
                               s + it + (i[1] - 1) * ImageSize + i[2])]]
          [] r[1] = "gradient/image" ->
               [it \in 1..BatchSize |->
                   [i \in Chans \X Pixels |->
                       Pattern(<<F(-1), F(0), F(-1)>>, acc_seed[1],
                               2 * s + it + (i[1] - 1) * ImageSize + i[2])]]
          [] r[1] = "gradient" ->
               [it \in 1..BatchSize |->
                   [i \in LChans \X LPixels |->
                       Pattern(<<F(0), F(-2), F(1)>>, acc_seed[2],
                               l + s + it + (i[1] - 1) * LayerSize + i[2])]]
          [] OTHER ->
               [c \in LChans |-> Pattern(<<F(0), F(1)>>, acc_seed[3], l + s + c)]

\* compute_implicit_biases(bn_weights, running_vars, running_means, s)
ItemsImplicitBiases(s) ==
    [l \in BnLayers |->
        [c \in LChans |-> Pattern(<<F(1), F(-1), F(0)>>, acc_seed[3], l + s + c)]]

Whole(r) == [ref |-> r, idx |-> 0]
View(r, i) == [ref |-> r, idx |-> i]
NoArray == Whole(<<"none", 0, 0>>)

\* the content a name refers to
Deref(h, v) == IF v.idx = 0 THEN h[v.ref] ELSE h[v.ref][v.idx]

\* the heap after val was stored where v points: a new object, a whole
\* array overwritten in place, or one item of a batch through its view
Store(h, v, val) ==
    IF v.ref \notin DOMAIN h THEN h @@ (v.ref :> val)
    ELSE IF v.idx = 0 THEN [h EXCEPT ![v.ref] = val]
    ELSE [h EXCEPT ![v.ref][v.idx] = val]

\* the reference of an array that numpy allocates for a result
NewArray(h) == Whole(<<"new", 0, Cardinality(DOMAIN h)>>)

\* a base term written into the memory of the gradient view it was
\* computed from
BaseTermInPlace(h, view) == view

\* image_gradient = np.sum(...): the name is bound to the new array that
\* np.sum returns
BaseTermTarget(h, view) == NewArray(h)

itemsFrame ==
    <<utilVars, loopVars, trialVars, normVars, step_pc, step_avail, plotted, bias_pc,
      bn_weights, running_vars, running_means, trial_seed, mean_sign,
      first_biases, accVars, plotVars, jobVars, endpointVars>>

InitItems ==
    /\ sal_pc = "step" /\ step = 1 /\ item = 0
    /\ acc_seed \in AccSeeds
    /\ heap = [r \in TrialRefs |-> TrialContent(r)]
    /\ rendered_maps = <<>>
    /\ image = NoArray /\ image_gradient = NoArray /\ saliency_map = NoArray
    /\ implicit_biases = <<>> /\ layer = 0
    /\ gradients = <<>> /\ biases = <<>> /\ bn_names = <<>>
    /\ layer_chan = <<>> /\ added = <<>>
    /\ step_pc = "idle" /\ step_avail = {} /\ plotted = 0
    /\ bias_pc = "idle" /\ bn_weights = <<>> /\ running_vars = <<>>
    /\ running_means = <<>> /\ trial_seed = <<0, 0, 0>>
    /\ mean_sign = 1 /\ first_biases = <<>>
    /\ UtilIdle /\ LoopIdle /\ NormIdle /\ PlotIdle /\ JobIdle /\ EndpointIdle

\* try: image_batch = trial.tensor("ResNet_input_0").value(step_num=step);
\*      implicit_biases = compute_implicit_biases(...)
ItemsStartStep ==
    /\ sal_pc = "step" /\ step <= MaxStep
    /\ implicit_biases' = ItemsImplicitBiases(step)
    /\ item' = 1
    /\ sal_pc' = "fetch"
    /\ UNCHANGED <<step, image, image_gradient, saliency_map, layer, itemVars>>
    /\ UNCHANGED itemsFrame

\* image = image_batch[item,:,:,:]
\* image_gradient = trial.tensor("gradient/image").value(...)[item,:]
ItemsFetch ==
    /\ sal_pc = "fetch" /\ item <= BatchSize
    /\ image' = View(<<"ResNet_input_0", 0, step>>, item)
    /\ image_gradient' = View(<<"gradient/image", 0, step>>, item)
    /\ sal_pc' = "base"
    /\ UNCHANGED <<step, item, implicit_biases, saliency_map, layer, itemVars>>
    /\ UNCHANGED itemsFrame

\* `for item in range(image_batch.shape[0])` is over: the next step
ItemsEndStep ==
    /\ sal_pc = "fetch" /\ item > BatchSize
    /\ step' = step + 1
    /\ sal_pc' = "step"
    /\ UNCHANGED <<item, image, image_gradient, implicit_biases, saliency_map,
                   layer, itemVars>>
    /\ UNCHANGED itemsFrame

\* image_gradient = np.sum(normalize(np.abs(image_gradient * image)), axis=0)
\* saliency_map = image_gradient
ItemsBaseTerm ==
    /\ sal_pc = "base"
    /\ LET target == BaseTermTarget(heap, image_gradient)
       IN  /\ heap' = Store(heap, target,
                            BaseTerm(Deref(heap, image),
                                     Deref(heap, image_gradient)))
           /\ image_gradient' = target
           /\ saliency_map' = target
    /\ layer' = 1
    /\ sal_pc' = "layers"
    /\ UNCHANGED <<step, item, image, implicit_biases, rendered_maps>>
    /\ UNCHANGED itemsFrame

\* one iteration of the zip loop (the lists name the layers in order):
\* gradient is the view [item:item+1] of the trial's array, bias + implicit_bias
\* a new array, and `saliency_map += interpolated` writes into the array
\* saliency_map refers to
ItemsAddLayer ==
    /\ sal_pc = "layers" /\ layer <= Len(implicit_biases)
    /\ LET gradient == Deref(heap, View(<<"gradient", layer, step>>, item))
           bias == Deref(heap, Whole(<<"bias", layer, step>>))
           arrays == InterpolatedArrays(gradient, bias,
                                        implicit_biases[layer], LayerChan)
       IN  heap' = Store(heap, saliency_map,
                         AddInto(Deref(heap, saliency_map), arrays))
    /\ layer' = layer + 1
    /\ UNCHANGED <<sal_pc, step, item, image, image_gradient, implicit_biases,
                   saliency_map, rendered_maps>>
    /\ UNCHANGED itemsFrame

\* saliency_map = normalize(saliency_map); plot(saliency_map, image, ...):
\* normalize returns a new array, plot works on new arrays of its own
ItemsPlot ==
    /\ sal_pc = "layers" /\ layer > Len(implicit_biases)
    /\ LET target == NewArray(heap)
           map == normalize(Deref(heap, saliency_map))
       IN  /\ heap' = Store(heap, target, map)
           /\ saliency_map' = target
           /\ rendered_maps' =
                 Append(rendered_maps,
                        [step |-> step, item |-> item,
                         ref |-> saliency_map.ref, map |-> map])
    /\ item' = item + 1
    /\ sal_pc' = "fetch"
    /\ UNCHANGED <<step, image, image_gradient, implicit_biases, layer>>
    /\ UNCHANGED itemsFrame

NextItems ==
    \/ ItemsStartStep \/ ItemsFetch \/ ItemsEndStep \/ ItemsBaseTerm
    \/ ItemsAddLayer \/ ItemsPlot

SpecItems == InitItems /\ [][NextItems]_vars

RECURSIVE ExpectedSum(_, _, _)
\* the map of item it of step s after l layers, from what the trial recorded
ExpectedSum(s, it, l) ==
    IF l = 0
    THEN BaseTerm(TrialContent(<<"ResNet_input_0", 0, s>>)[it],
                  TrialContent(<<"gradient/image", 0, s>>)[it])
    ELSE AddInto(Evaluated(ExpectedSum(s, it, l - 1)),
                 InterpolatedArrays(TrialContent(<<"gradient", l, s>>)[it],
                                    TrialContent(<<"bias", l, s>>),
                                    ItemsImplicitBiases(s)[l], LayerChan))

\* C17: the saliency map of each (step, item) is a new array: the in-place
\* accumulation never writes into an array of the trial, the array an item
\* accumulates in is none of the trial's and none of an earlier item's, and
\* the map an item is plotted with is the one computed from that step's and
\* item's recorded tensors alone.
C17_FreshMapPerItem ==
    /\ \A r \in TrialRefs : heap[r] = TrialContent(r)
    /\ \A k \in DOMAIN rendered_maps :
          /\ rendered_maps[k].ref \notin TrialRefs
          /\ \A j \in DOMAIN rendered_maps :
                j # k => rendered_maps[j].ref # rendered_maps[k].ref
          /\ rendered_maps[k].map =
                normalize(ExpectedSum(rendered_maps[k].step,
                                      rendered_maps[k].item, NLayers + 1))
    /\ (sal_pc = "layers") =>
          /\ saliency_map.ref \notin TrialRefs
          /\ \A k \in DOMAIN rendered_maps :
                rendered_maps[k].ref # saliency_map.ref

\* two items of different steps were plotted, with different maps free of
\* NaN, and a third is being accumulated
C17_Witness ==
    /\ sal_pc = "layers" /\ layer > 1
    /\ \E j, k \in DOMAIN rendered_maps :
          /\ rendered_maps[j].step # rendered_maps[k].step
          /\ rendered_maps[j].map # rendered_maps[k].map
          /\ \A p \in Pixels : IsFinite(rendered_maps[j].map[p])
          /\ \A p \in Pixels : IsFinite(rendered_maps[k].map[p])

\* -------------------------------------------------- plot: the heat map
\* float -> integer conversion truncates toward zero
Trunc(a) == Sign(a[1]) * (AbsInt(a[1]) \div a[2])

\* astype(np.uint8) of a float.  Out of 0..255 the C conversion is
\* undefined: the build either keeps the low 8 bits of the truncated
\* integer ("wrap") or clamps to 0..255 ("saturate"); NaN gives 0
AsUint8(a, cast) ==
    IF ~IsFinite(a) THEN 0
    ELSE IF cast = "wrap" THEN Trunc(a) % 256
    ELSE IF Trunc(a) < 0 THEN 0
    ELSE IF Trunc(a) > 255 THEN 255
    ELSE Trunc(a)

\* the map plot is called with is the result of the final normalize
InitPlot ==
    /\ norm_pc = "input"
    /\ tensor \in [1..TLen -> TensorValues]
    /\ normalized = <<>>
    /\ plot_pc = "call" /\ uint8_cast \in {"wrap", "saturate"}
    /\ saliency_u8 = <<>>
    /\ UtilIdle /\ LoopIdle /\ StepIdle /\ SalIdle /\ BiasIdle /\ AccIdle /\ ItemsIdle
    /\ JobIdle /\ EndpointIdle

\* saliency_map = - saliency_map * 255
\* saliency_map = saliency_map.astype(np.uint8)
PlotHeatmap ==
    /\ plot_pc = "call" /\ norm_pc = "done"
    /\ saliency_u8' =
          [i \in DOMAIN normalized |->
              AsUint8(FMul(FNeg(normalized[i]), F(255)), uint8_cast)]
    /\ plot_pc' = "scaled"
    /\ UNCHANGED uint8_cast
    /\ UNCHANGED <<utilVars, loopVars, trialVars, stepVars, normVars, salVars, biasVars,
                   accVars, itemVars, jobVars, endpointVars>>

NextPlot == Normalize \/ PlotHeatmap

SpecPlot == InitPlot /\ [][NextPlot]_vars

\* C18: with the uint8 conversion taken modulo 256, the 8-bit values are
\* in 0..255 and reverse the order of the saliency values in [0,1]: a
\* smaller saliency never gets a smaller 8-bit value.
C18_OrderReversing ==
    (plot_pc = "scaled" /\ uint8_cast = "wrap") =>
        /\ \A i \in DOMAIN saliency_u8 : saliency_u8[i] \in 0..255
        /\ \A i, j \in DOMAIN saliency_u8 :
              (/\ InUnit(normalized[i]) /\ InUnit(normalized[j])
               /\ FLess(normalized[i], normalized[j]))
                  => saliency_u8[i] >= saliency_u8[j]

\* ------------------------------- the job-status wait cell, create_trial
\* what describe_training_job can report: the primary status with its
\* secondary status
JobStatus(p, s) == [TrainingJobStatus |-> p, SecondaryStatus |-> s]
PlatformStatuses ==
    {JobStatus("InProgress", s) :
        s \in {"Starting", "Downloading", "Training", "Uploading"}}
    \cup {JobStatus(x, x) : x \in {"Completed", "Failed", "Stopping", "Stopped"}}

\* the job moves on; the cells see it only through describe_training_job
JobChanges ==
    /\ job_pc \notin {"idle", "created"}
    /\ job_status' \in PlatformStatuses \ {job_status}
    /\ UNCHANGED <<job_pc, description, job_waited>>
    /\ UNCHANGED <<utilVars, loopVars, trialVars, stepVars, normVars, salVars, biasVars,
                   accVars, itemVars, plotVars, endpointVars>>

\* a loop that also ends when the job has failed or was stopped
JobWaitUnlessEnded(d) ==
    d.SecondaryStatus \notin {"Training", "Completed", "Failed", "Stopped"}

\* a loop that waits only while the job is starting
JobWaitWhileStarting(d) == d.SecondaryStatus = "Starting"

\* while description['SecondaryStatus'] not in {'Training', 'Completed'}
JobWaitCondition(d) == d.SecondaryStatus \notin {"Training", "Completed"}

\* the cells, one statement at a time:
\*   describe:     description = client.describe_training_job(...)
\*   if:           if description['TrainingJobStatus'] != 'Completed':
\*   while:        while description['SecondaryStatus'] not in {...}:
\*   poll:         description = client.describe_training_job(...); print
\*   sleep:        time.sleep(15)
\*   create_trial: trial = create_trial(path)
JobCell ==
    /\ \/ /\ job_pc = "describe"
          /\ description' = job_status
          /\ job_pc' = "if"
          /\ UNCHANGED job_waited
       \/ /\ job_pc = "if"
          /\ job_pc' = IF description.TrainingJobStatus # "Completed"
                       THEN "while" ELSE "create_trial"
          /\ UNCHANGED <<description, job_waited>>
       \/ /\ job_pc = "while"
          /\ job_pc' = IF JobWaitCondition(description)
                       THEN "poll" ELSE "create_trial"
          /\ UNCHANGED <<description, job_waited>>
       \/ /\ job_pc = "poll"
          /\ description' = job_status
          /\ job_waited' = TRUE
          /\ job_pc' = "sleep"
       \/ /\ job_pc = "sleep"
          /\ job_pc' = "while"
          /\ UNCHANGED <<description, job_waited>>
       \/ /\ job_pc = "create_trial"
          /\ job_pc' = "created"
          /\ UNCHANGED <<description, job_waited>>
    /\ UNCHANGED job_status
    /\ UNCHANGED <<utilVars, loopVars, trialVars, stepVars, normVars, salVars, biasVars,
                   accVars, itemVars, plotVars, endpointVars>>

InitJob ==
    /\ job_pc = "describe" /\ job_status \in PlatformStatuses
    /\ description = NoStatus /\ job_waited = FALSE
    /\ UtilIdle /\ LoopIdle /\ StepIdle /\ NormIdle /\ SalIdle /\ BiasIdle /\ AccIdle
    /\ ItemsIdle /\ PlotIdle /\ EndpointIdle

NextJob == JobChanges \/ JobCell

SpecJob == InitJob /\ [][NextJob]_vars

\* C19: when the wait cell is over and the trial is created, the last
\* description observed has TrainingJobStatus Completed or SecondaryStatus
\* Training or Completed, whatever statuses the platform reported.
C19_TrialAfterTrainingOrCompleted ==
    (job_pc \in {"create_trial", "created"}) =>
        \/ description.TrainingJobStatus = "Completed"
        \/ description.SecondaryStatus \in {"Training", "Completed"}

\* the loop polled, saw the job in Training and the trial was created,
\* although the job has failed since
C19_Witness ==
    /\ job_pc = "created" /\ job_waited
    /\ description = JobStatus("InProgress", "Training")
    /\ job_status = JobStatus("Failed", "Failed")

\* ---------------------------------------- the R notebook's endpoint cells
\* polls after which the endpoint_in_service waiter gives up
MaxAttempts == 2

EndpointStatuses ==
    {"Creating", "InService", "Failed", "Updating", "SystemUpdating",
     "RollingBack", "OutOfService", "Deleting"}

\* the endpoint moves on; the cells see it only through describe_endpoint
EndpointChanges ==
    /\ r_pc \in {"describe", "wait", "finally", "check", "tend", "invoke"}
    /\ endpoint_status' \in EndpointStatuses \ {endpoint_status}
    /\ UNCHANGED <<r_pc, status, waiter_threw, attempts>>
    /\ UNCHANGED <<utilVars, loopVars, trialVars, stepVars, normVars, salVars, biasVars,
                   accVars, itemVars, plotVars, jobVars>>

\* a finally block without the status test
EndpointNeverStops(st) == FALSE

\* if (status != "InService") { stop("Endpoint creation did not succeed") }
EndpointStopCondition(st) == st # "InService"

\* smclient$get_waiter("endpoint_in_service")$wait(...): one poll.  It
\* returns when it sees InService, ends with an error when it sees Failed,
\* when its attempts are used up or when the call itself fails, and polls
\* again otherwise
WaiterPoll ==
    /\ r_pc = "wait"
    /\ \/ /\ endpoint_status = "InService"
          /\ r_pc' = "finally"
          /\ UNCHANGED <<waiter_threw, attempts>>
       \/ /\ endpoint_status = "Failed" \/ attempts + 1 >= MaxAttempts
          /\ endpoint_status # "InService"
          /\ waiter_threw' = TRUE
          /\ r_pc' = "finally"
          /\ attempts' = attempts + 1
       \/ /\ endpoint_status \notin {"InService", "Failed"}
          /\ attempts + 1 < MaxAttempts
          /\ attempts' = attempts + 1
          /\ UNCHANGED <<r_pc, waiter_threw>>
       \/ /\ waiter_threw' = TRUE
          /\ r_pc' = "finally"
          /\ UNCHANGED attempts
    /\ UNCHANGED <<endpoint_status, status>>
    /\ UNCHANGED <<utilVars, loopVars, trialVars, stepVars, normVars, salVars, biasVars,
                   accVars, itemVars, plotVars, jobVars>>

\* the other statements of the cells:
\*   create:   smclient$create_endpoint(...)
\*   describe: resp = smclient$describe_endpoint(...); status = resp$EndpointStatus
\*   finally:  resp <- smclient$describe_endpoint(...); status <- resp$EndpointStatus
\*             (a failing call ends the cell with its error)
\*   check:    the status test of the finally block; after the block an
\*             error of the waiter goes on to end the cell
\*   tend:     tend <- Sys.time(); display(...)
\*   invoke:   runtime$invoke_endpoint(EndpointName=r_endpoint, ...)
EndpointCell ==
    /\ \/ /\ r_pc = "create"
          /\ endpoint_status' = "Creating"
          /\ r_pc' = "describe"
          /\ UNCHANGED status
       \/ /\ r_pc = "describe"
          /\ status' = endpoint_status
          /\ r_pc' = "wait"
          /\ UNCHANGED endpoint_status
       \/ /\ r_pc = "finally"
          /\ \/ status' = endpoint_status /\ r_pc' = "check"
             \/ r_pc' = "error" /\ UNCHANGED status
          /\ UNCHANGED endpoint_status
       \/ /\ r_pc = "check"
          /\ r_pc' = IF EndpointStopCondition(status) THEN "stopped"
                     ELSE IF waiter_threw THEN "error"
                     ELSE "tend"
          /\ UNCHANGED <<endpoint_status, status>>
       \/ /\ r_pc = "tend"
          /\ r_pc' = "invoke"
          /\ UNCHANGED <<endpoint_status, status>>
       \/ /\ r_pc = "invoke"
          /\ r_pc' = "invoked"
          /\ UNCHANGED <<endpoint_status, status>>
    /\ UNCHANGED <<waiter_threw, attempts>>
    /\ UNCHANGED <<utilVars, loopVars, trialVars, stepVars, normVars, salVars, biasVars,
                   accVars, itemVars, plotVars, jobVars>>

InitEndpoint ==
    /\ r_pc = "create" /\ endpoint_status = "none" /\ status = "none"
    /\ waiter_threw = FALSE /\ attempts = 0
    /\ UtilIdle /\ LoopIdle /\ StepIdle /\ NormIdle /\ SalIdle /\ BiasIdle /\ AccIdle
    /\ ItemsIdle /\ PlotIdle /\ JobIdle

NextEndpoint == EndpointChanges \/ WaiterPoll \/ EndpointCell

SpecEndpoint == InitEndpoint /\ [][NextEndpoint]_vars

\* C20: the waiter's run always ends in the finally block, whether it
\* returned or threw; a status other than InService read there stops the
\* notebook; a stopped notebook stays stopped; so invoke_endpoint is reached
\* only with status InService, read after a waiter that returned normally.
C20_InvokeOnlyInService ==
    [][/\ (r_pc = "wait" /\ r_pc' # "wait") => r_pc' = "finally"
       /\ (r_pc = "finally" /\ r_pc' = "check") => status' = endpoint_status
       /\ (r_pc = "check" /\ status # "InService" /\ r_pc' # "check")
             => r_pc' = "stopped"
       /\ (r_pc \in {"stopped", "error"}) => r_pc' = r_pc
       /\ (r_pc' \in {"tend", "invoke", "invoked"})
             => (status' = "InService" /\ ~waiter_threw')
      ]_vars

\* the endpoint was invoked after the waiter had polled more than once;
\* it has left InService since it was last described
C20_Witness ==
    /\ r_pc = "invoked" /\ attempts >= 1 /\ status = "InService"
    /\ endpoint_status # "InService"

\* ------------------------------------- visualize_detection (SSD notebook)
\* Detections handed to visualize_detection and entries of classes.
MaxDets == 2
MaxClasses == 3

\* scores and thresholds in tenths: thresh is the default 0.6 or the
\* notebook's threshold = 0.20
ScoreValues == {1, 6, 9}
ThreshValues == {2, 6}
object_categories == <<"aeroplane", "bicycle", "bird", "boat">>

\* scores = dets[1][0]; score = scores[i][0]   (i counts from 0)
Score(d, k) == d[k + 1][2]

\* for i in range(len(classes)):
DetLoopLength(d, cls) == Len(cls)

InitDet ==
    /\ det_pc = "loop"
    /\ dets \in UNION {[1..n -> (0..1) \X ScoreValues] : n \in 0..MaxDets}
    /\ \E n \in 0..MaxClasses : classes = SubSeq(object_categories, 1, n)
    /\ thresh \in ThreshValues
    /\ det_i = 0 /\ patches = <<>>
    /\ LoopIdle /\ StepIdle /\ NormIdle /\ SalIdle /\ BiasIdle /\ AccIdle
    /\ ItemsIdle /\ PlotIdle /\ JobIdle /\ EndpointIdle
    /\ ReluIdle /\ UploadIdle /\ TrainIdle

\* klass = klasses[i][0] with i past the last detection
DetIndexError ==
    /\ det_pc = "loop" /\ det_i < DetLoopLength(dets, classes)
    /\ det_i >= Len(dets)
    /\ det_pc' = "IndexError"
    /\ UNCHANGED <<dets, classes, thresh, det_i, patches>>
    /\ UNCHANGED <<loopVars, trialVars, stepVars, normVars, salVars, biasVars,
                   accVars, itemVars, plotVars, jobVars, endpointVars,
                   reluVars, uploadVars, trainVars>>

\* one pass of the loop body: continue when score < thresh, otherwise
\* plt.gca().add_patch(rect) and the label
DetIteration ==
    /\ det_pc = "loop" /\ det_i < DetLoopLength(dets, classes)
    /\ det_i < Len(dets)
    /\ patches' = IF Score(dets, det_i) < thresh THEN patches
                  ELSE Append(patches, det_i)
    /\ det_i' = det_i + 1
    /\ UNCHANGED <<det_pc, dets, classes, thresh>>
    /\ UNCHANGED <<loopVars, trialVars, stepVars, normVars, salVars, biasVars,
                   accVars, itemVars, plotVars, jobVars, endpointVars,
                   reluVars, uploadVars, trainVars>>

\* plt.tight_layout(rect=[0, 0, 2, 2]); plt.show()
DetShow ==
    /\ det_pc = "loop" /\ det_i >= DetLoopLength(dets, classes)
    /\ det_pc' = "shown"
    /\ UNCHANGED <<dets, classes, thresh, det_i, patches>>
    /\ UNCHANGED <<loopVars, trialVars, stepVars, normVars, salVars, biasVars,
                   accVars, itemVars, plotVars, jobVars, endpointVars,
                   reluVars, uploadVars, trainVars>>

NextDet == DetIndexError \/ DetIteration \/ DetShow

SpecDet == InitDet /\ [][NextDet]_vars

\* C21: visualize_detection returns, and the detections it drew a box for
\* are exactly those whose score is at least thresh, whatever the number of
\* detections and the length of classes.
C21_BoxIffScoreAtLeastThresh ==
    (det_pc \in {"shown", "IndexError"}) =>
        /\ det_pc = "shown"
        /\ Range(patches) =
              {k \in 0..(Len(dets) - 1) : Score(dets, k) >= thresh}

\* ------------------------------------------------------------ relu_inplace
\* Modules in the tree handed to relu_inplace.
MaxModules == 4

\* A module object: its class, the inplace flag of a ReLU, and _modules as
\* the list of its children in registration order (named_children yields
\* them in this order; the position in the list stands for child_name).
\* modules[m] is the object with identity m; the root is object 1.
ModuleClasses == {"ReLU", "Sequential"}
Module(cls, inplace, children) ==
    [cls |-> cls, inplace |-> inplace, children |-> children]

\* the module trees of n objects: every object but the root is registered
\* in exactly one parent, and a ReLU has no children
ModuleTrees(n) ==
    {[m \in 1..n |->
         Module(cls[m], inpl[m], SortedSeq({c \in 2..n : parent[c] = m}))] :
       <<cls, inpl, parent>> \in
         {t \in [1..n -> ModuleClasses] \X [1..n -> BOOLEAN]
                  \X [2..n -> 1..n] :
            /\ \A c \in 2..n : t[3][c] < c /\ t[1][t[3][c]] # "ReLU"
            /\ \A m \in 1..n : t[1][m] # "ReLU" => ~t[2][m]}}

\* a test that passes only the ReLUs that need no change
IsReLUNotInplace(child) == child.cls = "ReLU" /\ ~child.inplace

\* isinstance(child, torch.nn.ReLU)
IsReLU(child) == child.cls = "ReLU"

TopFrame == call_stack[Len(call_stack)]
\* the child the loop of the innermost call is at
CurrentChild == modules[TopFrame.model].children[TopFrame.k]
LoopHasChild ==
    /\ relu_pc = "running"
    /\ TopFrame.k <= Len(modules[TopFrame.model].children)
Advance == [call_stack EXCEPT ![Len(call_stack)].k = @ + 1]

reluFrame ==
    <<loopVars, trialVars, stepVars, normVars, salVars, biasVars, accVars,
      itemVars, plotVars, jobVars, endpointVars, detVars, uploadVars,
      trainVars>>

\* relu_inplace(model) is called on the root
InitRelu ==
    /\ relu_pc = "running"
    /\ modules \in UNION {ModuleTrees(n) : n \in 1..MaxModules}
    /\ call_stack = <<[model |-> 1, k |-> 1]>>
    /\ modules_before = modules
    /\ LoopIdle /\ StepIdle /\ NormIdle /\ SalIdle /\ BiasIdle /\ AccIdle
    /\ ItemsIdle /\ PlotIdle /\ JobIdle /\ EndpointIdle
    /\ DetIdle /\ UploadIdle /\ TrainIdle

\* setattr(model, child_name, torch.nn.ReLU(inplace=False)): a new object
\* takes the child's place in model._modules
ReluReplace ==
    /\ LoopHasChild /\ IsReLU(modules[CurrentChild])
    /\ modules' =
          Append([modules EXCEPT
                     ![TopFrame.model].children[TopFrame.k] = Len(modules) + 1],
                 Module("ReLU", FALSE, <<>>))
    /\ call_stack' = Advance
    /\ UNCHANGED <<relu_pc, modules_before>>
    /\ UNCHANGED reluFrame

\* relu_inplace(child)
ReluRecurse ==
    /\ LoopHasChild /\ ~IsReLU(modules[CurrentChild])
    /\ call_stack' = Append(Advance, [model |-> CurrentChild, k |-> 1])
    /\ UNCHANGED <<relu_pc, modules, modules_before>>
    /\ UNCHANGED reluFrame

\* named_children() is exhausted: the call returns
ReluReturn ==
    /\ relu_pc = "running"
    /\ TopFrame.k > Len(modules[TopFrame.model].children)
    /\ call_stack' = SubSeq(call_stack, 1, Len(call_stack) - 1)
    /\ relu_pc' = IF Len(call_stack) = 1 THEN "returned" ELSE "running"
    /\ UNCHANGED <<modules, modules_before>>
    /\ UNCHANGED reluFrame

NextRelu == ReluReplace \/ ReluRecurse \/ ReluReturn

SpecRelu == InitRelu /\ [][NextRelu]_vars

\* the interpreter keeps running the call
SpecReluLive == SpecRelu /\ WF_vars(NextRelu)

\* every child slot that held a ReLU holds a ReLU with inplace=False, every
\* other slot holds the object it held, and no object of the original tree
\* changed class or number of children
ReluPostcondition ==
    \A m \in DOMAIN modules_before :
        /\ modules[m].cls = modules_before[m].cls
        /\ Len(modules[m].children) = Len(modules_before[m].children)
        /\ \A j \in DOMAIN modules_before[m].children :
              LET before == modules_before[m].children[j]
                  after  == modules[m].children[j]
              IN  IF modules_before[before].cls = "ReLU"
                  THEN modules[after].cls = "ReLU" /\ ~modules[after].inplace
                  ELSE after = before

\* C22: relu_inplace(model) returns on every module tree, and when it has
\* returned every ReLU below the root is a ReLU with inplace=False and every
\* other module is the same object in the same position.
C22_ReluInplace ==
    /\ [](relu_pc = "returned" => ReluPostcondition)
    /\ <>(relu_pc = "returned")

\* returned on a tree that had a ReLU with inplace=True below a child of
\* the root
C22_Witness ==
    /\ relu_pc = "returned"
    /\ \E m \in 2..Len(modules_before) :
          \E j \in DOMAIN modules_before[m].children :
              LET c == modules_before[m].children[j]
              IN  modules_before[c].cls = "ReLU" /\ modules_before[c].inplace

\* ------------------------------------------------------------ upload_to_s3
\* Directories os.walk yields, files in one directory, and the largest
\* counter a call passes.
MaxDirs == 2
MaxFiles == 3
MaxCounter == 2

\* the files list os.walk yields for a directory of n files
Files(n) == [f \in 1..n |-> f]

\* q[0:stop] of Python: a negative stop counts from the end of the list
PySliceTo(q, stop) ==
    LET end == IF stop < 0 THEN (IF Len(q) + stop < 0 THEN 0 ELSE Len(q) + stop)
               ELSE MinInt(stop, Len(q))
    IN  SubSeq(q, 1, end)

\* every file of every directory of the walk
AllFiles == UNION {{<<d, f>> : f \in 1..walk[d]} : d \in DOMAIN walk}

uploadFrame ==
    <<loopVars, trialVars, stepVars, normVars, salVars, biasVars, accVars,
      itemVars, plotVars, jobVars, endpointVars, detVars, reluVars,
      trainVars>>

\* upload_to_s3(path, directory_name, bucket, counter=-1)
InitUpload ==
    /\ upload_pc = "walk"
    /\ walk \in UNION {[1..n -> 0..MaxFiles] : n \in 1..MaxDirs}
    /\ counter \in (-1)..MaxCounter
    /\ walk_i = 0 /\ uploaded = {}
    /\ LoopIdle /\ StepIdle /\ NormIdle /\ SalIdle /\ BiasIdle /\ AccIdle
    /\ ItemsIdle /\ PlotIdle /\ JobIdle /\ EndpointIdle
    /\ DetIdle /\ ReluIdle /\ TrainIdle

\* one directory of the walk:
\*   for file in files[0:counter]: client.upload_file(...)
UploadDirectory ==
    /\ upload_pc = "walk" /\ walk_i < Len(walk)
    /\ uploaded' = uploaded \cup
          {<<walk_i + 1, f>> :
             f \in Range(PySliceTo(Files(walk[walk_i + 1]), counter))}
    /\ walk_i' = walk_i + 1
    /\ UNCHANGED <<upload_pc, walk, counter>>
    /\ UNCHANGED uploadFrame

\* os.walk is exhausted
UploadReturn ==
    /\ upload_pc = "walk" /\ walk_i = Len(walk)
    /\ upload_pc' = "returned"
    /\ UNCHANGED <<walk, counter, walk_i, uploaded>>
    /\ UNCHANGED uploadFrame

NextUpload == UploadDirectory \/ UploadReturn

SpecUpload == InitUpload /\ [][NextUpload]_vars

\* C23: with the default counter (-1) upload_to_s3 uploads every file of
\* every directory under path, and with counter = k >= 0 it uploads at most
\* k files in total.
C23_UploadAllOrAtMostCounter ==
    (upload_pc = "returned") =>
        /\ counter = -1 => uploaded = AllFiles
        /\ counter >= 0 => Cardinality(uploaded) <= counter

\* ----------------------------------- further claims on the rendering loop
\* C24: when an iteration computes steps_to_render, it is the set of
\* reported steps that are not in rendered_steps as long as the trial never
\* withdrew a step; and a step of rendered_steps that the current report
\* lacks is in steps_to_render, that is, scheduled again.
C24_StepsToRender ==
    [][(pc = "steps" /\ pc' = "for") =>
          /\ drops = 0 =>
                steps_to_render' =
                    {s \in Range(steps'.val) : s \notin Range(rendered_steps)}
          /\ \A s \in Range(rendered_steps) :
                s \notin Range(steps'.val) => s \in steps_to_render'
          /\ todo' = SortedSeq(steps_to_render')
      ]_vars

\* a rendered step the trial withdrew is about to be attempted again, next
\* to a step that is new
C24_Witness ==
    /\ pc = "for" /\ todo # <<>>
    /\ \E s \in steps_to_render :
          s \in Range(rendered_steps) /\ s \notin Range(steps.val)
    /\ \E s \in steps_to_render : s \notin Range(rendered_steps)

\* C25: with a trial whose step set does not shrink, every try block is the
\* first attempt of its step (the step was neither plotted nor logged as
\* unavailable nor put in rendered_steps before), and the extend at the end
\* of a pass puts the steps that were skipped as unavailable in
\* rendered_steps like the plotted ones.
C25_SkippedStepNeverRetried ==
    [][/\ TryBlockRan =>
             /\ plots[Head(todo)] = 0
             /\ Head(todo) \notin Range(unavailable_log)
             /\ Head(todo) \notin Range(rendered_steps)
       /\ (pc = "for" /\ pc' = "sleep") =>
             \A s \in steps_to_render : s \in Range(rendered_steps')
      ]_vars

\* the loop exited; a step was skipped as unavailable in one pass, its
\* tensors arrived, a later pass plotted another step, and the skipped step
\* is in rendered_steps without a plot
C25_Witness ==
    /\ pc = "done"
    /\ \E s \in Range(unavailable_log) :
          /\ s \in trial_ready /\ plots[s] = 0
          /\ \E k \in 1..(Len(rendered_steps) - 1) :
                rendered_steps[k] = s /\ plots[rendered_steps[k + 1]] = 1

\* the try block of step s has run
Attempted(s) == plots[s] >= 1 \/ s \in Range(unavailable_log)

\* C26: when the rendering loop exits, every step of the last fetched step
\* list is in rendered_steps and was attempted; and a step the trial
\* reported by the time the flag was read true (or between that read and
\* the fetch of the step list) is in rendered_steps and was attempted
\* whenever the loop has exited.
C26_NoVisibleStepLeft ==
    /\ [](pc = "done" =>
             \A s \in Range(steps.val) :
                 s \in Range(rendered_steps) /\ Attempted(s))
    /\ \A s \in EvalSteps :
          []((pc = "steps" /\ loaded_all_steps /\ s \in trial_steps) =>
                [](pc = "done" => (s \in Range(rendered_steps) /\ Attempted(s))))

\* the loop exited after a last iteration that read the flag true and
\* fetched a step the iterations before had not seen
C26_Witness ==
    /\ pc = "done" /\ loaded_all_steps
    /\ Len(rendered_steps) >= 2
    /\ steps_to_render # {} /\ steps_to_render # Range(rendered_steps)
    /\ \A s \in steps_to_render : Attempted(s)

\* --------------------------- the job-status wait cell with a real job
\* the statuses a job ends in and never leaves
EndedStatuses == {"Completed", "Failed", "Stopped"}

\* the job moves on until it has ended
JobAdvances ==
    /\ job_pc \notin {"idle", "created"}
    /\ job_status.TrainingJobStatus \notin EndedStatuses
    /\ job_status' \in PlatformStatuses \ {job_status}
    /\ UNCHANGED <<job_pc, description, job_waited>>
    /\ UNCHANGED <<utilVars, loopVars, trialVars, stepVars, normVars, salVars,
                   biasVars, accVars, itemVars, plotVars, endpointVars>>

NextJobLive == JobAdvances \/ JobCell

\* the interpreter keeps running the cells (time.sleep(15) returns)
SpecJobLive == InitJob /\ [][NextJobLive]_vars /\ WF_vars(JobCell)

\* the description lets the cell go on to create_trial
ObservedReady(d) ==
    \/ d.TrainingJobStatus = "Completed"
    \/ d.SecondaryStatus \in {"Training", "Completed"}

\* C27: the wait cell ends if and only if the job was already Completed or
\* a describe_training_job observed SecondaryStatus Training or Completed;
\* when the job has reached Failed or Stopped and no such description was
\* observed, the cell never ends and never fails: it polls again and again.
C27_WaitLoopTermination ==
    /\ [](job_pc \in {"create_trial", "created"} => ObservedReady(description))
    /\ (job_pc \in {"if", "while", "sleep"} /\ ObservedReady(description))
          ~> (job_pc = "created")
    /\ []((/\ job_pc \notin {"idle", "created"}
           /\ ~ObservedReady(description)
           /\ job_status.TrainingJobStatus \in {"Failed", "Stopped"})
          => /\ [](job_pc \notin {"create_trial", "created"})
             /\ []<>(job_pc = "poll"))

\* the loop is polling a job it has already seen Failed
C27_Witness ==
    /\ job_pc = "poll" /\ job_waited
    /\ description.TrainingJobStatus = "Failed"
    /\ job_status.TrainingJobStatus = "Failed"

\* ------------------------------------ name lists of different lengths
\* the batch-norm layers in the order the trial lists their tensors
LayerList == [k \in BnLayers |-> k]
\* a list a regular expression can give that matches all the layers, or
\* misses some at the end: a prefix of the layers
Prefixes == {SubSeq(LayerList, 1, b) : b \in 0..Len(LayerList)}
\* ... or misses some at either end
SubLists ==
    {SubSeq(LayerList, a, b) : a \in 1..(Len(LayerList) + 1),
                               b \in 0..Len(LayerList)}

\* the batch-norm tensors of layer l, of layer_chan[l] channels
ZipWeight(l) ==
    [c \in 1..layer_chan[l] |-> Cycle(WeightCycle, acc_seed[3] + l + c)]
ZipRunningVar(l) ==
    [c \in 1..layer_chan[l] |-> Cycle(RunningVarCycle, acc_seed[3] + l + c)]
ZipRunningMean(l) ==
    [c \in 1..layer_chan[l] |-> Cycle(RunningMeanCycle, acc_seed[3] + l + c)]

\* the name lists as the cells before the rendering loop leave them, one
\* item of one step: the three batch-norm lists name the same layers up to
\* their length, gradients and biases may also miss leading layers
InitZip ==
    /\ sal_pc = "biases"
    /\ bn_weights \in Prefixes
    /\ running_vars \in Prefixes
    /\ running_means \in Prefixes
    /\ gradients \in SubLists
    /\ biases \in SubLists
    /\ layer_chan \in [BnLayers -> {LayerChan, LayerChan + 1}]
    /\ acc_seed = <<1, 1, 1>>
    /\ image = AccImage /\ image_gradient = AccImageGradient
    /\ implicit_biases = <<>> /\ bn_names = <<>>
    /\ saliency_map = <<>> /\ layer = 0 /\ added = <<>>
    /\ bias_pc = "idle" /\ step = 0 /\ trial_seed = <<0, 0, 0>>
    /\ mean_sign = 1 /\ first_biases = <<>>
    /\ UtilIdle /\ LoopIdle /\ StepIdle /\ NormIdle /\ ItemsIdle /\ PlotIdle
    /\ JobIdle /\ EndpointIdle

\* implicit_biases = compute_implicit_biases(bn_weights, running_vars,
\*                                           running_means, step);
\* bn_names keeps the layer of each entry
ZipComputeImplicitBiases ==
    /\ sal_pc = "biases"
    /\ implicit_biases' =
          compute_implicit_biases(
              [k \in 1..Len(bn_weights) |-> ZipWeight(bn_weights[k])],
              [k \in 1..Len(running_vars) |-> ZipRunningVar(running_vars[k])],
              [k \in 1..Len(running_means) |->
                  ZipRunningMean(running_means[k])])
    /\ bn_names' = SubSeq(bn_weights, 1, Len(implicit_biases'))
    /\ sal_pc' = "base"
    /\ UNCHANGED <<image, image_gradient, saliency_map, layer, gradients,
                   biases, layer_chan, acc_seed, added>>
    /\ UNCHANGED <<utilVars, loopVars, trialVars, stepVars, normVars, biasVars,
                   itemVars, plotVars, jobVars, endpointVars>>

NextZip ==
    ZipComputeImplicitBiases \/ AccBaseTerm \/ AccAddLayer \/ AccFinalNormalize

SpecZip == InitZip /\ [][NextZip]_vars

\* the length of the shortest of three lists
Shortest(a, b, c) ==
    CHOOSE n \in {Len(a), Len(b), Len(c)} :
        \A m \in {Len(a), Len(b), Len(c)} : n <= m

\* the channels of the first n layers named by gradients
RECURSIVE ChannelsAdded(_)
ChannelsAdded(n) ==
    IF n = 0 THEN 0 ELSE ChannelsAdded(n - 1) + layer_chan[gradients[n]]

ListsDiffer ==
    \/ Cardinality({Len(bn_weights), Len(running_vars), Len(running_means)}) > 1
    \/ Cardinality({Len(gradients), Len(biases), Len(implicit_biases)}) > 1

TrainingStatuses == {"InProgress", "Completed", "Failed", "Stopping", "Stopped"}

\* the training job moves on; the cell sees it only through
\* describe_training_job
TrainingChanges ==
    /\ r_pc \in {"describe", "wait", "redescribe", "check", "tend"}
    /\ training_job_status' \in TrainingStatuses \ {training_job_status}
    /\ UNCHANGED endpointVars
    /\ UNCHANGED <<loopVars, trialVars, stepVars, normVars, salVars, biasVars,
                   accVars, itemVars, plotVars, jobVars, detVars, reluVars,
                   uploadVars>>

\* a test that lets only Completed jobs through
TrainingStopUnlessCompleted(st) == st # "Completed"

\* if (status == "Failed") { ...; stop("Training job failed") }
TrainingStopCondition(st) == st = "Failed"

\* smclient$get_waiter("training_job_completed_or_stopped")$wait(...): one
\* poll.  It returns when it sees Completed or Stopped, ends with an error
\* when it sees Failed, when its attempts are used up or when the call
\* itself fails, and polls again otherwise.  Nothing catches its error.
TrainingWaiterPoll ==
    /\ r_pc = "wait"
    /\ \/ /\ training_job_status \in {"Completed", "Stopped"}
          /\ r_pc' = "redescribe"
          /\ UNCHANGED <<waiter_threw, attempts>>
       \/ /\ training_job_status = "Failed" \/ attempts + 1 >= MaxAttempts
          /\ training_job_status \notin {"Completed", "Stopped"}
          /\ waiter_threw' = TRUE
          /\ r_pc' = "error"
          /\ attempts' = attempts + 1
       \/ /\ training_job_status \notin {"Completed", "Stopped", "Failed"}
          /\ attempts + 1 < MaxAttempts
          /\ attempts' = attempts + 1
          /\ UNCHANGED <<r_pc, waiter_threw>>
       \/ /\ waiter_threw' = TRUE
          /\ r_pc' = "error"
          /\ UNCHANGED attempts
    /\ UNCHANGED <<endpoint_status, status, training_job_status>>
    /\ UNCHANGED <<loopVars, trialVars, stepVars, normVars, salVars, biasVars,
                   accVars, itemVars, plotVars, jobVars, detVars, reluVars,
                   uploadVars>>

\* the other statements of the cell and of the next one:
\*   describe:     status <- smclient$describe_training_job(...)$TrainingJobStatus
\*   redescribe:   jobdesc <- smclient$describe_training_job(...)
\*                 status <- jobdesc$TrainingJobStatus
\*   check:        if (status == "Failed") { ...; stop("Training job failed") }
\*   tend:         tend <- Sys.time(); display(...)
\*   create_model: create_model_response <- smclient$create_model(...)
TrainingCell ==
    /\ \/ /\ r_pc \in {"describe", "redescribe"}
          /\ status' = training_job_status
          /\ r_pc' = IF r_pc = "describe" THEN "wait" ELSE "check"
       \/ /\ r_pc = "check"
          /\ r_pc' = IF TrainingStopCondition(status) THEN "stopped" ELSE "tend"
          /\ UNCHANGED status
       \/ /\ r_pc = "tend"
          /\ r_pc' = "create_model"
          /\ UNCHANGED status
       \/ /\ r_pc = "create_model"
          /\ r_pc' = "model_created"
          /\ UNCHANGED status
    /\ UNCHANGED <<endpoint_status, waiter_threw, attempts, training_job_status>>
    /\ UNCHANGED <<loopVars, trialVars, stepVars, normVars, salVars, biasVars,
                   accVars, itemVars, plotVars, jobVars, detVars, reluVars,
                   uploadVars>>

\* the job was created by the cell before; it can be in any status already
InitTrain ==
    /\ r_pc = "describe" /\ training_job_status \in TrainingStatuses
    /\ endpoint_status = "none" /\ status = "none"
    /\ waiter_threw = FALSE /\ attempts = 0
    /\ LoopIdle /\ StepIdle /\ NormIdle /\ SalIdle /\ BiasIdle /\ AccIdle
    /\ ItemsIdle /\ PlotIdle /\ JobIdle /\ DetIdle /\ ReluIdle /\ UploadIdle

NextTrain == TrainingChanges \/ TrainingWaiterPoll \/ TrainingCell

SpecTrain == InitTrain /\ [][NextTrain]_vars

\* C29: after the waiter has returned, the status test stops the notebook
\* exactly when the status read again is Failed; with every other status,
\* Stopped included, the cell goes on and create_model is reached.  So
\* create_model is reached with any status but Failed.
C29_StopsOnlyOnFailed ==
    [][/\ (r_pc = "check" /\ r_pc' # "check") =>
             /\ status = "Failed" => r_pc' = "stopped"
             /\ status # "Failed" => r_pc' = "tend"
       /\ (r_pc' = "stopped" /\ r_pc # "stopped") => status = "Failed"
       /\ (r_pc = "tend" /\ r_pc' # "tend") => r_pc' = "create_model"
       /\ (r_pc' \in {"tend", "create_model", "model_created"}) =>
             (status' # "Failed" /\ ~waiter_threw')
      ]_vars

\* create_model ran for a job that was stopped, after the waiter polled
\* more than once
C29_Witness ==
    /\ r_pc = "model_created" /\ status = "Stopped"
    /\ training_job_status = "Stopped" /\ attempts >= 1

====
